---- MODULE Spec2Model ----
(***************************************************************************)
(* The tap event channel of floodgate (crates/floodgate/src/channel.rs)    *)
(* and the reconnection supervisor of gifdex-ingest (src/main.rs).         *)
(*                                                                         *)
(* Strings that the code converts (passwords, header values) are byte      *)
(* sequences; a URL is the record of the parts the code reads or writes.   *)
(***************************************************************************)
EXTENDS Integers, Sequences, FiniteSets, TLC

\* ------------------------------------------------------------------ bounds
\* frames the upstream delivers in one run, over all connections
MaxFrames == 3
\* concurrency limits tried by the dispatcher specification: 1..MaxLimit
MaxLimit == 2
\* connection handles one run creates
MaxConns == 2

\* ------------------------------------------------------- program constants
\* ChannelBuilder::new, NonZero::new(100)
DefaultMaxConcurrent == 100
\* ChannelConnectionHandle::connect, != 101
SwitchingProtocols == 101

Conns == 1..MaxConns

\* ------------------------------------------------------------------- bytes
\* "admin:" of format!("admin:{password_string}")
AdminColon == <<97, 100, 109, 105, 110, 58>>
\* "Basic " of format!("Basic {encoded}")
BasicSpace == <<66, 97, 115, 105, 99, 32>>
\* "secret"
Secret == <<115, 101, 99, 114, 101, 116>>

\* base64 STANDARD alphabet: A-Z a-z 0-9 + /
B64Char(i) ==
    IF i < 26 THEN 65 + i
    ELSE IF i < 52 THEN 97 + (i - 26)
    ELSE IF i < 62 THEN 48 + (i - 52)
    ELSE IF i = 62 THEN 43
    ELSE 47

RECURSIVE Base64Encode(_)
\* base64::engine::general_purpose::STANDARD.encode
Base64Encode(bytes) ==
    IF Len(bytes) = 0 THEN <<>>
    ELSE IF Len(bytes) = 1 THEN
        << B64Char(bytes[1] \div 4), B64Char((bytes[1] % 4) * 16), 61, 61 >>
    ELSE IF Len(bytes) = 2 THEN
        << B64Char(bytes[1] \div 4),
           B64Char((bytes[1] % 4) * 16 + bytes[2] \div 16),
           B64Char((bytes[2] % 16) * 4), 61 >>
    ELSE
        << B64Char(bytes[1] \div 4),
           B64Char((bytes[1] % 4) * 16 + bytes[2] \div 16),
           B64Char((bytes[2] % 16) * 4 + bytes[3] \div 64),
           B64Char(bytes[3] % 64) >>
        \o Base64Encode(SubSeq(bytes, 4, Len(bytes)))

\* HeaderValue::from_str (str::parse): every byte visible ASCII, space or tab
HeaderValueParse(bytes) ==
    IF \A i \in 1..Len(bytes) :
           (bytes[i] >= 32 /\ bytes[i] < 127) \/ bytes[i] = 9
    THEN [ok |-> TRUE, value |-> bytes]
    ELSE [ok |-> FALSE]

\* ------------------------------------------------------------ url, builder
SupportedSchemes == {"http", "https", "ws", "wss"}
Schemes == SupportedSchemes \cup {"ftp", "file"}
Paths == {"/", "/channel", "/api/v1"}
Passwords == {<<>>, Secret, <<10>>}

NoPassword == [some |-> FALSE]
SomeOf(v) == [some |-> TRUE, v |-> v]

\* ChannelBuilder::new
BuilderNew(base_url) ==
    [base_url |-> base_url, password |-> NoPassword,
     max_concurrent |-> DefaultMaxConcurrent]

\* SchemeAccepted that turns away only the file scheme
SchemeAcceptedButFile(scheme) == scheme # "file"

\* ChannelBuilder::build, scheme validation
SchemeAccepted(scheme) == scheme \in {"http", "https", "ws", "wss"}

\* AuthHeaderOf that encodes the password without the admin user
AuthHeaderOfNoUser(password) ==
    IF password.some
    THEN LET parsed == HeaderValueParse(BasicSpace \o Base64Encode(password.v))
         IN  IF parsed.ok THEN [ok |-> TRUE, header |-> SomeOf(parsed.value)]
             ELSE [ok |-> FALSE]
    ELSE [ok |-> TRUE, header |-> NoPassword]

\* ChannelBuilder::build, auth_header
AuthHeaderOf(password) ==
    IF password.some
    THEN LET parsed == HeaderValueParse(BasicSpace \o Base64Encode(AdminColon \o password.v))
         IN  IF parsed.ok THEN [ok |-> TRUE, header |-> SomeOf(parsed.value)]
             ELSE [ok |-> FALSE]
    ELSE [ok |-> TRUE, header |-> NoPassword]

\* ChannelBuilder::build
Build(b) ==
    IF ~SchemeAccepted(b.base_url.scheme)
    THEN [ok |-> FALSE, err |-> "InvalidUrlScheme", scheme |-> b.base_url.scheme]
    ELSE IF ~AuthHeaderOf(b.password).ok
    THEN [ok |-> FALSE, err |-> "InvalidPassword"]
    ELSE [ok |-> TRUE,
          channel |-> [base_url |-> b.base_url,
                       auth_header |-> AuthHeaderOf(b.password).header,
                       max_concurrent |-> b.max_concurrent]]

\* RewriteScheme with the https arm setting the plain scheme
RewriteSchemePlain(scheme) ==
    IF scheme \in {"http", "https"} THEN [panic |-> FALSE, scheme |-> "ws"]
    ELSE IF scheme \in {"ws", "wss"} THEN [panic |-> FALSE, scheme |-> scheme]
    ELSE [panic |-> TRUE]

\* ChannelConnectionHandle::connect, the match on websocket_url.scheme()
RewriteScheme(scheme) ==
    IF scheme = "http" THEN [panic |-> FALSE, scheme |-> "ws"]
    ELSE IF scheme = "https" THEN [panic |-> FALSE, scheme |-> "wss"]
    ELSE IF scheme \in {"ws", "wss"} THEN [panic |-> FALSE, scheme |-> scheme]
    ELSE [panic |-> TRUE]

\* ChannelConnectionHandle::connect, websocket_url and the request headers
HandshakeRequest(ch) ==
    [url |-> [scheme |-> RewriteScheme(ch.base_url.scheme).scheme, path |-> "/channel"],
     user_agent |-> TRUE,
     authorization |-> ch.auth_header]

\* StatusRejected with every status below 400 taken for a success
StatusRejectedFrom400(status) ==
    status # SwitchingProtocols /\ ~(status >= 200 /\ status < 400)

\* response.status().as_u16() != 101 && !response.status().is_success()
StatusRejected(status) ==
    status # SwitchingProtocols /\ ~(status >= 200 /\ status < 300)

Statuses == {100, 101, 199, 200, 204, 299, 300, 404}

\* ------------------------------------------------------------------- state
VARIABLES
    builder,    \* the ChannelBuilder, until build consumes it
    channel,    \* the result of ChannelBuilder::build
    request,    \* the handshake request of the latest connect
    sup,        \* position of main's loop
    last,       \* the result of channel.connect() that main is matching on
    nconn,      \* connection handles created so far; the latest is nconn
    hpc,        \* per connection: position of ChannelConnectionHandle::handler
    permit,     \* per connection: the dispatcher holds `permit`
    semaphore,  \* per connection: available permits
    inbound,    \* per connection: the frames read, each with its handler task
    ack_queue,  \* per connection: ids sent on ack_tx and not yet received
    wpc,        \* per connection: position of writer_task
    wcur,       \* per connection: the message writer_task is sending
    wire        \* per connection: the messages written on the write half

vars == << builder, channel, request, sup, last, nconn, hpc, permit, semaphore,
           inbound, ack_queue, wpc, wcur, wire >>

connvars == << hpc, permit, semaphore, inbound, ack_queue, wpc, wcur, wire >>

NoBuilder == [live |-> FALSE]
NoChannel == [done |-> FALSE]
NoRequest == [sent |-> FALSE]
NoResult == [tag |-> "None"]
NoMessage == [kind |-> "None"]

\* the configured limit of the built channel
Limit == channel.res.channel.max_concurrent

\* frames read so far, over all connections
RECURSIVE FramesRead(_)
FramesRead(c) == IF c = 0 THEN 0 ELSE Len(inbound[c]) + FramesRead(c - 1)

\* tasks of connection c that serde and the handler have not left yet
Holding(c) == {f \in 1..Len(inbound[c]) : inbound[c][f].st \in {"spawned", "running"}}

\* InJoinSet that sees only the tasks that have already finished
InJoinSetFinished(c) ==
    {f \in 1..Len(inbound[c]) : inbound[c][f].st = "finished"}

\* tasks of connection c still in the JoinSet
InJoinSet(c) ==
    {f \in 1..Len(inbound[c]) : inbound[c][f].st \in {"spawned", "running", "finished"}}

ConnInit ==
    /\ nconn = 0
    /\ hpc = [c \in Conns |-> "none"]
    /\ permit = [c \in Conns |-> FALSE]
    /\ semaphore = [c \in Conns |-> 0]
    /\ inbound = [c \in Conns |-> <<>>]
    /\ ack_queue = [c \in Conns |-> <<>>]
    /\ wpc = [c \in Conns |-> "none"]
    /\ wcur = [c \in Conns |-> NoMessage]
    /\ wire = [c \in Conns |-> <<>>]
    /\ request = NoRequest
    /\ last = NoResult

\* main has built its channel with a limit of 1..MaxLimit and enters its loop
Init ==
    /\ builder = NoBuilder
    /\ \E n \in 1..MaxLimit :
         channel = [done |-> TRUE,
                    res |-> Build([BuilderNew([scheme |-> "http", path |-> "/"])
                                      EXCEPT !.max_concurrent = n])]
    /\ sup = "connect"
    /\ ConnInit

\* a builder fresh from Channel::builder, on any base address
InitBuild ==
    /\ \E s \in Schemes, p \in Paths : builder = [live |-> TRUE, b |-> BuilderNew([scheme |-> s, path |-> p])]
    /\ channel = NoChannel
    /\ sup = "start"
    /\ ConnInit

\* ------------------------------------------------------------ the builder
\* ChannelBuilder::password
Password(p) ==
    /\ sup = "start" /\ builder.live
    /\ builder' = [builder EXCEPT !.b.password = SomeOf(p)]
    /\ UNCHANGED << channel, request, sup, last, nconn, connvars >>

\* ChannelBuilder::max_concurrent
MaxConcurrent(n) ==
    /\ sup = "start" /\ builder.live
    /\ builder' = [builder EXCEPT !.b.max_concurrent = n]
    /\ UNCHANGED << channel, request, sup, last, nconn, connvars >>

\* ChannelBuilder::build, and main's `?` on its result
BuildStep ==
    /\ sup = "start" /\ builder.live
    /\ channel' = [done |-> TRUE, res |-> Build(builder.b)]
    /\ builder' = NoBuilder
    /\ sup' = IF Build(builder.b).ok THEN "connect" ELSE "exit"
    /\ UNCHANGED << request, last, nconn, connvars >>

\* ------------------------------------------------------------- connecting
\* connect: connect_async(request).await? fails below HTTP
ConnectWsError ==
    /\ last' = [tag |-> "Err", err |-> "WebSocketError"]
    /\ UNCHANGED << nconn, connvars >>

\* connect: the handshake response has a status the check rejects
ConnectRejected(status) ==
    /\ StatusRejected(status)
    /\ last' = [tag |-> "Err", err |-> "WebSocketHttpResponseFailure", status |-> status]
    /\ UNCHANGED << nconn, connvars >>

\* SemaphoreNew with one permit too many
SemaphoreNewPlusOne(max_concurrent) == max_concurrent + 1

\* Semaphore::new(max_concurrent.get())
SemaphoreNew(max_concurrent) == max_concurrent

\* ConnectOk that hands the new handle the ack queue of the connection before it
ConnectOkSharedQueue(status) ==
    /\ ~StatusRejected(status)
    /\ nconn < MaxConns
    /\ nconn' = nconn + 1
    /\ ack_queue' = [ack_queue EXCEPT ![nconn'] = IF nconn = 0 THEN <<>> ELSE ack_queue[nconn]]
    /\ semaphore' = [semaphore EXCEPT ![nconn'] = SemaphoreNew(Limit)]
    /\ wpc' = [wpc EXCEPT ![nconn'] = "recv"]
    /\ hpc' = [hpc EXCEPT ![nconn'] = "handle"]
    /\ last' = [tag |-> "Ok", conn |-> nconn', status |-> status]
    /\ UNCHANGED << permit, inbound, wcur, wire >>

\* connect: split, unbounded_channel, Semaphore::new, spawn writer_task, Ok(Self)
ConnectOk(status) ==
    /\ ~StatusRejected(status)
    /\ nconn < MaxConns
    /\ nconn' = nconn + 1
    /\ ack_queue' = [ack_queue EXCEPT ![nconn'] = <<>>]
    /\ semaphore' = [semaphore EXCEPT ![nconn'] = SemaphoreNew(Limit)]
    /\ wpc' = [wpc EXCEPT ![nconn'] = "recv"]
    /\ hpc' = [hpc EXCEPT ![nconn'] = "handle"]
    /\ last' = [tag |-> "Ok", conn |-> nconn', status |-> status]
    /\ UNCHANGED << permit, inbound, wcur, wire >>

\* Channel::connect -> ChannelConnectionHandle::connect, awaited by main
Connect ==
    /\ sup = "connect"
    /\ UNCHANGED << builder, channel >>
    /\ IF RewriteScheme(channel.res.channel.base_url.scheme).panic
       THEN /\ sup' = "panicked"
            /\ UNCHANGED << request, last, nconn, connvars >>
       ELSE /\ request' = [sent |-> TRUE, req |-> HandshakeRequest(channel.res.channel)]
            /\ sup' = "matching"
            /\ \/ ConnectWsError
               \/ \E status \in Statuses : ConnectRejected(status)
               \/ \E status \in Statuses : ConnectOk(status)

\* -------------------------------------------------------- main's loop
\* SupConnErr as `channel.connect().await?` would behave: main returns the error
SupConnErrPropagates ==
    /\ sup = "matching" /\ last.tag = "Err"
    /\ sup' = "exit"
    /\ last' = NoResult
    /\ UNCHANGED << builder, channel, request, nconn, connvars >>

\* Err(err) => log, sleep 5 seconds
SupConnErr ==
    /\ sup = "matching" /\ last.tag = "Err"
    /\ sup' = "sleep5"
    /\ last' = NoResult
    /\ UNCHANGED << builder, channel, request, nconn, connvars >>

\* the 5 second sleep ends; continue
Wake5 ==
    /\ sup = "sleep5"
    /\ sup' = "connect"
    /\ UNCHANGED << builder, channel, request, last, nconn, connvars >>

\* SupCallHandler that starts handler without awaiting it and goes on to the sleep
SupCallHandlerDetached ==
    /\ sup = "matching" /\ last.tag = "Ok"
    /\ hpc[last.conn] = "handle"
    /\ hpc' = [hpc EXCEPT ![last.conn] = "reap"]
    /\ sup' = "sleep10"
    /\ last' = NoResult
    /\ UNCHANGED << builder, channel, request, nconn, permit, semaphore, inbound,
                    ack_queue, wpc, wcur, wire >>

\* Ok(r) => connection.handler(..): the JoinSet is created, the loop entered
SupCallHandler ==
    /\ sup = "matching" /\ last.tag = "Ok"
    /\ hpc[last.conn] = "handle"
    /\ hpc' = [hpc EXCEPT ![last.conn] = "reap"]
    /\ sup' = "handler"
    /\ last' = NoResult
    /\ UNCHANGED << builder, channel, request, nconn, permit, semaphore, inbound,
                    ack_queue, wpc, wcur, wire >>

\* the 10 second sleep ends; next iteration
Wake10 ==
    /\ sup = "sleep10"
    /\ sup' = "connect"
    /\ UNCHANGED << builder, channel, request, last, nconn, connvars >>

\* ------------------------------------------- ChannelConnectionHandle::handler
\* what the next text frame of connection c can carry: an event, whose id the
\* upstream assigns in increasing order and never twice on one connection, or
\* something serde rejects
Texts(c) == {[wellformed |-> TRUE, id |-> Len(inbound[c]) + 1], [wellformed |-> FALSE]}

\* FromStr that accepts any text
FromStrLenient(text) == [ok |-> TRUE, event |-> [id |-> 0]]

\* serde_json::from_str::<Event>(&text)
FromStr(text) ==
    IF text.wellformed THEN [ok |-> TRUE, event |-> [id |-> text.id]]
    ELSE [ok |-> FALSE]

\* a frame the dispatcher read that got no task
Frame(kind) == [kind |-> kind, text |-> [wellformed |-> FALSE], st |-> "none",
                res |-> "none", enq |-> FALSE]

\* the upstream has another frame (or an error, or the end) for this run
MoreInput == FramesRead(MaxConns) < MaxFrames

\* Reap that goes on to read without acquiring a permit
ReapThenRead(c) ==
    /\ hpc[c] = "reap"
    /\ inbound' = [inbound EXCEPT ![c] =
                     [f \in 1..Len(@) |-> IF @[f].st = "finished"
                                          THEN [@[f] EXCEPT !.st = "joined"] ELSE @[f]]]
    /\ hpc' = [hpc EXCEPT ![c] = "read"]
    /\ UNCHANGED << builder, channel, request, sup, last, nconn, permit, semaphore,
                    ack_queue, wpc, wcur, wire >>

\* while let Some(result) = tasks.try_join_next(): every finished task leaves the set
Reap(c) ==
    /\ hpc[c] = "reap"
    /\ inbound' = [inbound EXCEPT ![c] =
                     [f \in 1..Len(@) |-> IF @[f].st = "finished"
                                          THEN [@[f] EXCEPT !.st = "joined"] ELSE @[f]]]
    /\ hpc' = [hpc EXCEPT ![c] = "acquire"]
    /\ UNCHANGED << builder, channel, request, sup, last, nconn, permit, semaphore,
                    ack_queue, wpc, wcur, wire >>

\* PermitAvailable that wants a permit to spare
PermitAvailableAboveOne(c) == semaphore[c] > 1

\* PermitAvailable that does not wait at zero
PermitAvailableAtZero(c) == semaphore[c] >= 0

\* acquire_owned completes only when a permit is available
PermitAvailable(c) == semaphore[c] > 0

\* Acquire as try_acquire_owned: with no permit left it goes on to read without one
AcquireTry(c) ==
    /\ hpc[c] = "acquire"
    /\ semaphore' = [semaphore EXCEPT ![c] = IF @ > 0 THEN @ - 1 ELSE @]
    /\ permit' = [permit EXCEPT ![c] = semaphore[c] > 0]
    /\ hpc' = [hpc EXCEPT ![c] = "read"]
    /\ UNCHANGED << builder, channel, request, sup, last, nconn, inbound,
                    ack_queue, wpc, wcur, wire >>

\* self.semaphore.clone().acquire_owned().await (the semaphore is never closed)
Acquire(c) ==
    /\ hpc[c] = "acquire"
    /\ PermitAvailable(c)
    /\ semaphore' = [semaphore EXCEPT ![c] = @ - 1]
    /\ permit' = [permit EXCEPT ![c] = TRUE]
    /\ hpc' = [hpc EXCEPT ![c] = "read"]
    /\ UNCHANGED << builder, channel, request, sup, last, nconn, inbound,
                    ack_queue, wpc, wcur, wire >>

\* drop(permit) by the dispatcher
DropPermit(c) ==
    /\ permit' = [permit EXCEPT ![c] = FALSE]
    /\ semaphore' = [semaphore EXCEPT ![c] = @ + 1]

\* read.next() gives Ok(Message::Text(text)): tasks.spawn(..), the permit moves in
ReadText(c, text) ==
    /\ hpc[c] = "read" /\ MoreInput
    /\ inbound' = [inbound EXCEPT ![c] =
                     Append(@, [kind |-> "Text", text |-> text, st |-> "spawned",
                                res |-> "none", enq |-> FALSE])]
    /\ permit' = [permit EXCEPT ![c] = FALSE]
    /\ hpc' = [hpc EXCEPT ![c] = "reap"]
    /\ UNCHANGED << builder, channel, request, sup, last, nconn, semaphore,
                    ack_queue, wpc, wcur, wire >>

\* ReadClose without the break
ReadCloseNoBreak(c) ==
    /\ hpc[c] = "read" /\ FramesRead(MaxConns) < MaxFrames
    /\ inbound' = [inbound EXCEPT ![c] =
                     Append(@, [kind |-> "Close", text |-> [wellformed |-> FALSE],
                                st |-> "none", res |-> "none", enq |-> FALSE])]
    /\ permit' = [permit EXCEPT ![c] = FALSE]
    /\ semaphore' = [semaphore EXCEPT ![c] = @ + 1]
    /\ hpc' = [hpc EXCEPT ![c] = "reap"]
    /\ UNCHANGED << builder, channel, request, sup, last, nconn,
                    ack_queue, wpc, wcur, wire >>

\* read.next() gives Ok(Message::Close(_)): drop(permit); break
ReadClose(c) ==
    /\ hpc[c] = "read" /\ MoreInput
    /\ inbound' = [inbound EXCEPT ![c] = Append(@, Frame("Close"))]
    /\ DropPermit(c)
    /\ hpc' = [hpc EXCEPT ![c] = "drain"]
    /\ UNCHANGED << builder, channel, request, sup, last, nconn,
                    ack_queue, wpc, wcur, wire >>

\* ReadOther that keeps the permit it acquired
ReadOtherKeepsPermit(c) ==
    /\ hpc[c] = "read" /\ FramesRead(MaxConns) < MaxFrames
    /\ inbound' = [inbound EXCEPT ![c] =
                     Append(@, [kind |-> "Other", text |-> [wellformed |-> FALSE],
                                st |-> "none", res |-> "none", enq |-> FALSE])]
    /\ permit' = [permit EXCEPT ![c] = FALSE]
    /\ hpc' = [hpc EXCEPT ![c] = "reap"]
    /\ UNCHANGED << builder, channel, request, sup, last, nconn, semaphore,
                    ack_queue, wpc, wcur, wire >>

\* read.next() gives Ok(_), a binary, ping or pong frame: drop(permit)
ReadOther(c) ==
    /\ hpc[c] = "read" /\ MoreInput
    /\ inbound' = [inbound EXCEPT ![c] = Append(@, Frame("Other"))]
    /\ DropPermit(c)
    /\ hpc' = [hpc EXCEPT ![c] = "reap"]
    /\ UNCHANGED << builder, channel, request, sup, last, nconn,
                    ack_queue, wpc, wcur, wire >>

\* read.next() gives Err(err): drop(permit); break
ReadErr(c) ==
    /\ hpc[c] = "read" /\ MoreInput
    /\ inbound' = [inbound EXCEPT ![c] = Append(@, Frame("Err"))]
    /\ DropPermit(c)
    /\ hpc' = [hpc EXCEPT ![c] = "drain"]
    /\ UNCHANGED << builder, channel, request, sup, last, nconn,
                    ack_queue, wpc, wcur, wire >>

\* read.next() gives None, the end of the stream: drop(permit); break
ReadEnd(c) ==
    /\ hpc[c] = "read" /\ MoreInput
    /\ inbound' = [inbound EXCEPT ![c] = Append(@, Frame("End"))]
    /\ DropPermit(c)
    /\ hpc' = [hpc EXCEPT ![c] = "drain"]
    /\ UNCHANGED << builder, channel, request, sup, last, nconn,
                    ack_queue, wpc, wcur, wire >>

\* tasks.join_next().await gives Some: one finished task leaves the set
JoinNext(c, f) ==
    /\ hpc[c] = "drain"
    /\ f \in 1..Len(inbound[c]) /\ inbound[c][f].st = "finished"
    /\ inbound' = [inbound EXCEPT ![c][f].st = "joined"]
    /\ UNCHANGED << builder, channel, request, sup, last, nconn, hpc, permit,
                    semaphore, ack_queue, wpc, wcur, wire >>

\* HandlerReturn that does not wait for the tasks still in the JoinSet
HandlerReturnNoDrain(c) ==
    /\ hpc[c] = "drain"
    /\ hpc' = [hpc EXCEPT ![c] = "closed"]
    /\ sup' = "sleep10"
    /\ UNCHANGED << builder, channel, request, last, nconn, permit, semaphore,
                    inbound, ack_queue, wpc, wcur, wire >>

\* HandlerReturn followed by the short sleep of the failed connect
HandlerReturnShortSleep(c) ==
    /\ hpc[c] = "drain"
    /\ InJoinSet(c) = {}
    /\ hpc' = [hpc EXCEPT ![c] = "closed"]
    /\ sup' = "sleep5"
    /\ UNCHANGED << builder, channel, request, last, nconn, permit, semaphore,
                    inbound, ack_queue, wpc, wcur, wire >>

\* tasks.join_next().await gives None: handler returns, main logs and sleeps 10 s
HandlerReturn(c) ==
    /\ hpc[c] = "drain"
    /\ InJoinSet(c) = {}
    /\ hpc' = [hpc EXCEPT ![c] = "closed"]
    /\ sup' = "sleep10"
    /\ UNCHANGED << builder, channel, request, last, nconn, permit, semaphore,
                    inbound, ack_queue, wpc, wcur, wire >>

\* ------------------------------------------------- the spawned handler task
\* ReceiverOpen with ack_rx dropped from the start
ReceiverDropped(c) == FALSE

\* ack_rx is alive: writer_task has not returned
ReceiverOpen(c) == wpc[c] \in {"recv", "send"}

\* the permit captured by the task is dropped
Release(c) == semaphore' = [semaphore EXCEPT ![c] = @ + 1]

\* from_str: Err => log, drop(permit), return; Ok => handler(event.data) is called
TaskParse(c, f) ==
    /\ f \in 1..Len(inbound[c]) /\ inbound[c][f].st = "spawned"
    /\ IF FromStr(inbound[c][f].text).ok
       THEN /\ inbound' = [inbound EXCEPT ![c][f].st = "running"]
            /\ UNCHANGED semaphore
       ELSE /\ inbound' = [inbound EXCEPT ![c][f].st = "finished",
                                          ![c][f].res = "parse_error"]
            /\ Release(c)
    /\ UNCHANGED << builder, channel, request, sup, last, nconn, hpc, permit,
                    ack_queue, wpc, wcur, wire >>

\* TaskOk that unwraps the result of ack_tx.send
TaskOkUnwrap(c, f) ==
    /\ f \in 1..Len(inbound[c]) /\ inbound[c][f].st = "running"
    /\ IF wpc[c] \in {"recv", "send"}
       THEN /\ ack_queue' = [ack_queue EXCEPT ![c] = Append(@, inbound[c][f].text.id)]
            /\ inbound' = [inbound EXCEPT ![c][f].st = "finished", ![c][f].res = "ok",
                                          ![c][f].enq = TRUE]
       ELSE /\ UNCHANGED ack_queue
            /\ inbound' = [inbound EXCEPT ![c][f].st = "finished", ![c][f].res = "panic"]
    /\ semaphore' = [semaphore EXCEPT ![c] = @ + 1]
    /\ UNCHANGED << builder, channel, request, sup, last, nconn, hpc, permit,
                    wpc, wcur, wire >>

\* TaskOk that drops the permit without sending the id
TaskOkNoAck(c, f) ==
    /\ f \in 1..Len(inbound[c]) /\ inbound[c][f].st = "running"
    /\ inbound' = [inbound EXCEPT ![c][f].st = "finished", ![c][f].res = "ok"]
    /\ Release(c)
    /\ UNCHANGED << builder, channel, request, sup, last, nconn, hpc, permit,
                    ack_queue, wpc, wcur, wire >>

\* TaskOk on a channel bounded by the concurrency limit: send waits for room
TaskOkBounded(c, f) ==
    /\ f \in 1..Len(inbound[c]) /\ inbound[c][f].st = "running"
    /\ Len(ack_queue[c]) < Limit
    /\ IF ReceiverOpen(c)
       THEN /\ ack_queue' = [ack_queue EXCEPT ![c] =
                               Append(@, FromStr(inbound[c][f].text).event.id)]
            /\ inbound' = [inbound EXCEPT ![c][f].st = "finished", ![c][f].res = "ok",
                                          ![c][f].enq = TRUE]
       ELSE /\ UNCHANGED ack_queue
            /\ inbound' = [inbound EXCEPT ![c][f].st = "finished", ![c][f].res = "ok"]
    /\ Release(c)
    /\ UNCHANGED << builder, channel, request, sup, last, nconn, hpc, permit,
                    wpc, wcur, wire >>

\* TaskOk that sends the id on ack_tx twice
TaskOkSendsTwice(c, f) ==
    /\ f \in 1..Len(inbound[c]) /\ inbound[c][f].st = "running"
    /\ IF ReceiverOpen(c)
       THEN /\ ack_queue' = [ack_queue EXCEPT ![c] =
                               Append(Append(@, FromStr(inbound[c][f].text).event.id),
                                      FromStr(inbound[c][f].text).event.id)]
            /\ inbound' = [inbound EXCEPT ![c][f].st = "finished", ![c][f].res = "ok",
                                          ![c][f].enq = TRUE]
       ELSE /\ UNCHANGED ack_queue
            /\ inbound' = [inbound EXCEPT ![c][f].st = "finished", ![c][f].res = "ok"]
    /\ Release(c)
    /\ UNCHANGED << builder, channel, request, sup, last, nconn, hpc, permit,
                    wpc, wcur, wire >>

\* handler returned Ok(()): ack_tx.send(event.id), its failure logged; drop(permit)
TaskOk(c, f) ==
    /\ f \in 1..Len(inbound[c]) /\ inbound[c][f].st = "running"
    /\ IF ReceiverOpen(c)
       THEN /\ ack_queue' = [ack_queue EXCEPT ![c] =
                               Append(@, FromStr(inbound[c][f].text).event.id)]
            /\ inbound' = [inbound EXCEPT ![c][f].st = "finished", ![c][f].res = "ok",
                                          ![c][f].enq = TRUE]
       ELSE /\ UNCHANGED ack_queue
            /\ inbound' = [inbound EXCEPT ![c][f].st = "finished", ![c][f].res = "ok"]
    /\ Release(c)
    /\ UNCHANGED << builder, channel, request, sup, last, nconn, hpc, permit,
                    wpc, wcur, wire >>

\* TaskErr whose error ends the dispatcher loop
TaskErrBreaksLoop(c, f) ==
    /\ f \in 1..Len(inbound[c]) /\ inbound[c][f].st = "running"
    /\ inbound' = [inbound EXCEPT ![c][f].st = "finished", ![c][f].res = "err"]
    /\ semaphore' = [semaphore EXCEPT ![c] = @ + 1]
    /\ hpc' = [hpc EXCEPT ![c] = IF @ \in {"reap", "acquire"} THEN "drain" ELSE @]
    /\ UNCHANGED << builder, channel, request, sup, last, nconn, permit,
                    ack_queue, wpc, wcur, wire >>

\* TaskErr that sends the id although the handler failed
TaskErrQueued(c, f) ==
    /\ f \in 1..Len(inbound[c]) /\ inbound[c][f].st = "running"
    /\ ack_queue' = [ack_queue EXCEPT ![c] =
                       Append(@, FromStr(inbound[c][f].text).event.id)]
    /\ inbound' = [inbound EXCEPT ![c][f].st = "finished", ![c][f].res = "err"]
    /\ Release(c)
    /\ UNCHANGED << builder, channel, request, sup, last, nconn, hpc, permit,
                    wpc, wcur, wire >>

\* handler returned Err(err): logged; drop(permit)
TaskErr(c, f) ==
    /\ f \in 1..Len(inbound[c]) /\ inbound[c][f].st = "running"
    /\ inbound' = [inbound EXCEPT ![c][f].st = "finished", ![c][f].res = "err"]
    /\ Release(c)
    /\ UNCHANGED << builder, channel, request, sup, last, nconn, hpc, permit,
                    ack_queue, wpc, wcur, wire >>

\* TaskPanic that takes the process down
TaskPanicAborts(c, f) ==
    /\ f \in 1..Len(inbound[c]) /\ inbound[c][f].st = "running"
    /\ inbound' = [inbound EXCEPT ![c][f].st = "finished", ![c][f].res = "panic"]
    /\ semaphore' = [semaphore EXCEPT ![c] = @ + 1]
    /\ sup' = "panicked"
    /\ UNCHANGED << builder, channel, request, last, nconn, hpc, permit,
                    ack_queue, wpc, wcur, wire >>

\* TaskPanic whose permit is lost with the panic
TaskPanicKeepsPermit(c, f) ==
    /\ f \in 1..Len(inbound[c]) /\ inbound[c][f].st = "running"
    /\ inbound' = [inbound EXCEPT ![c][f].st = "finished", ![c][f].res = "panic"]
    /\ UNCHANGED << builder, channel, request, sup, last, nconn, hpc, permit,
                    semaphore, ack_queue, wpc, wcur, wire >>

\* handler panicked: the task's future is dropped, and the permit with it
TaskPanic(c, f) ==
    /\ f \in 1..Len(inbound[c]) /\ inbound[c][f].st = "running"
    /\ inbound' = [inbound EXCEPT ![c][f].st = "finished", ![c][f].res = "panic"]
    /\ Release(c)
    /\ UNCHANGED << builder, channel, request, sup, last, nconn, hpc, permit,
                    ack_queue, wpc, wcur, wire >>

\* ------------------------------------------------------------- writer_task
\* serde_json::to_string(&Ack { type_: "ack", id })
SerializeAck(id) == [ok |-> TRUE, json |-> [type |-> "ack", id |-> id]]

\* an ack_tx is alive: the handle's, or the clone of a task that has not ended
SendersLive(c) == hpc[c] # "closed" \/ Holding(c) # {}

\* WriterRecv that takes the id queued last
WriterRecvLifo(c) ==
    /\ wpc[c] = "recv"
    /\ ack_queue[c] # <<>>
    /\ ack_queue' = [ack_queue EXCEPT ![c] = SubSeq(@, 1, Len(@) - 1)]
    /\ wcur' = [wcur EXCEPT ![c] =
                  [kind |-> "Text",
                   json |-> SerializeAck(ack_queue[c][Len(ack_queue[c])]).json]]
    /\ wpc' = [wpc EXCEPT ![c] = "send"]
    /\ UNCHANGED << builder, channel, request, sup, last, nconn, hpc, permit,
                    semaphore, inbound, wire >>

\* ack_rx.recv() gives Some(id): serialize; on failure log and continue
WriterRecv(c) ==
    /\ wpc[c] = "recv"
    /\ ack_queue[c] # <<>>
    /\ ack_queue' = [ack_queue EXCEPT ![c] = Tail(@)]
    /\ IF SerializeAck(Head(ack_queue[c])).ok
       THEN /\ wcur' = [wcur EXCEPT ![c] =
                          [kind |-> "Text", json |-> SerializeAck(Head(ack_queue[c])).json]]
            /\ wpc' = [wpc EXCEPT ![c] = "send"]
       ELSE UNCHANGED << wcur, wpc >>
    /\ UNCHANGED << builder, channel, request, sup, last, nconn, hpc, permit,
                    semaphore, inbound, wire >>

\* WriterClosed that ends as soon as the senders are gone, whatever is queued
WriterClosedEarly(c) ==
    /\ wpc[c] = "recv"
    /\ ~SendersLive(c)
    /\ wpc' = [wpc EXCEPT ![c] = "closed"]
    /\ UNCHANGED << builder, channel, request, sup, last, nconn, hpc, permit,
                    semaphore, inbound, ack_queue, wcur, wire >>

\* WriterClosed that closes the socket with a close frame on its way out
WriterClosedSendsClose(c) ==
    /\ wpc[c] = "recv"
    /\ ack_queue[c] = <<>>
    /\ ~SendersLive(c)
    /\ wpc' = [wpc EXCEPT ![c] = "closed"]
    /\ wire' = [wire EXCEPT ![c] = Append(@, [kind |-> "Close"])]
    /\ UNCHANGED << builder, channel, request, sup, last, nconn, hpc, permit,
                    semaphore, inbound, ack_queue, wcur >>

\* ack_rx.recv() gives None: every sender is gone and the queue is empty
WriterClosed(c) ==
    /\ wpc[c] = "recv"
    /\ ack_queue[c] = <<>>
    /\ ~SendersLive(c)
    /\ wpc' = [wpc EXCEPT ![c] = "closed"]
    /\ UNCHANGED << builder, channel, request, sup, last, nconn, hpc, permit,
                    semaphore, inbound, ack_queue, wcur, wire >>

\* WriterSendOk on a write half shared by the connections: the newest socket gets it
WriterSendOkLatestSocket(c) ==
    /\ wpc[c] = "send"
    /\ wire' = [wire EXCEPT ![nconn] = Append(@, wcur[c])]
    /\ wcur' = [wcur EXCEPT ![c] = NoMessage]
    /\ wpc' = [wpc EXCEPT ![c] = "recv"]
    /\ UNCHANGED << builder, channel, request, sup, last, nconn, hpc, permit,
                    semaphore, inbound, ack_queue >>

\* write.send(Message::Text(json)).await gives Ok
WriterSendOk(c) ==
    /\ wpc[c] = "send"
    /\ wire' = [wire EXCEPT ![c] = Append(@, wcur[c])]
    /\ wcur' = [wcur EXCEPT ![c] = NoMessage]
    /\ wpc' = [wpc EXCEPT ![c] = "recv"]
    /\ UNCHANGED << builder, channel, request, sup, last, nconn, hpc, permit,
                    semaphore, inbound, ack_queue >>

\* WriterSendFail with continue in place of break
WriterSendFailContinue(c) ==
    /\ wpc[c] = "send"
    /\ wcur' = [wcur EXCEPT ![c] = NoMessage]
    /\ wpc' = [wpc EXCEPT ![c] = "recv"]
    /\ UNCHANGED << builder, channel, request, sup, last, nconn, hpc, permit,
                    semaphore, inbound, ack_queue, wire >>

\* write.send(..).await gives Err: log, break; ack_rx and its queue are dropped
WriterSendFail(c) ==
    /\ wpc[c] = "send"
    /\ wcur' = [wcur EXCEPT ![c] = NoMessage]
    /\ ack_queue' = [ack_queue EXCEPT ![c] = <<>>]
    /\ wpc' = [wpc EXCEPT ![c] = "failed"]
    /\ UNCHANGED << builder, channel, request, sup, last, nconn, hpc, permit,
                    semaphore, inbound, wire >>

\* WriterSerializeErr with break in place of continue
WriterSerializeErrBreaks(c) ==
    /\ wpc[c] = "recv"
    /\ ack_queue[c] # <<>>
    /\ ack_queue' = [ack_queue EXCEPT ![c] = <<>>]
    /\ wpc' = [wpc EXCEPT ![c] = "failed"]
    /\ UNCHANGED << builder, channel, request, sup, last, nconn, hpc, permit,
                    semaphore, inbound, wcur, wire >>

\* ack_rx.recv() gives Some(id) and serde_json::to_string gives Err: log, continue.
\* serde_json has no failure for a struct of a &str and a u64, so no run of Spec
\* takes this arm; SpecSerialize admits it, to say what the arm does.
WriterSerializeErr(c) ==
    /\ wpc[c] = "recv"
    /\ ack_queue[c] # <<>>
    /\ ack_queue' = [ack_queue EXCEPT ![c] = Tail(@)]
    /\ UNCHANGED << builder, channel, request, sup, last, nconn, hpc, permit,
                    semaphore, inbound, wpc, wcur, wire >>

\* ------------------------------------------------------------ specifications
Dispatcher(c) ==
    \/ Reap(c) \/ Acquire(c)
    \/ \E text \in Texts(c) : ReadText(c, text)
    \/ ReadClose(c) \/ ReadOther(c) \/ ReadErr(c) \/ ReadEnd(c)
    \/ \E f \in 1..MaxFrames : JoinNext(c, f)
    \/ HandlerReturn(c)

Task(c, f) == TaskParse(c, f) \/ TaskOk(c, f) \/ TaskErr(c, f) \/ TaskPanic(c, f)

Writer(c) == WriterRecv(c) \/ WriterClosed(c) \/ WriterSendOk(c) \/ WriterSendFail(c)

Supervisor == Connect \/ SupConnErr \/ Wake5 \/ SupCallHandler \/ Wake10

Next ==
    \/ Supervisor
    \/ \E c \in Conns : Dispatcher(c) \/ Writer(c) \/ \E f \in 1..MaxFrames : Task(c, f)

Spec == Init /\ [][Next]_vars

NextBuild ==
    \/ \E p \in Passwords : Password(p)
    \/ \E n \in 1..MaxLimit : MaxConcurrent(n)
    \/ BuildStep
    \/ Connect \/ SupConnErr \/ Wake5

SpecBuild == InitBuild /\ [][NextBuild]_vars

\* the worker with a serializer that may fail
NextSerialize == Next \/ \E c \in Conns : WriterSerializeErr(c)

SpecSerialize == Init /\ [][NextSerialize]_vars

\* the runtime keeps polling the spawned writer tasks, and a send on the socket
\* completes, with Ok or with Err: while some writer_task has a step, one is taken
FairWriter == WF_vars(\E c \in Conns : Writer(c))

SpecWriterFair == Init /\ [][Next]_vars /\ FairWriter

\* the steps of handler that wait for nothing outside the process, and the
\* steps of its tasks: the dispatcher is polled, every handler invocation completes
HandlerProgress(c) ==
    \/ Reap(c) \/ Acquire(c) \/ HandlerReturn(c)
    \/ \E f \in 1..MaxFrames : JoinNext(c, f) \/ Task(c, f)

\* while the dispatcher or one of its tasks has such a step, one is taken; reading
\* is left to the transport, which may stay silent
FairHandler == WF_vars(\E c \in Conns : HandlerProgress(c))

SpecHandlerFair == Init /\ [][Next]_vars /\ FairHandler

\* ------------------------------------------------- floodgate: TapClient
\* TapClient::builder
TapClientBuilderNew(base_url) == [base_url |-> base_url, password |-> NoPassword]

\* TapClientBuilder::build that takes a base address of any scheme
TapClientBuildAnyScheme(b, http_client_ok) ==
    IF b.password.some
       /\ ~HeaderValueParse(BasicSpace \o Base64Encode(AdminColon \o b.password.v)).ok
    THEN [ok |-> FALSE, err |-> "InvalidPassword"]
    ELSE IF ~http_client_ok THEN [ok |-> FALSE, err |-> "CouldntConstructHttpClient"]
    ELSE [ok |-> TRUE, client |-> [base_url |-> b.base_url, password |-> b.password]]

\* TapClientBuilder::build: the scheme is http or https, the password makes a
\* header value, reqwest builds its client
TapClientBuild(b, http_client_ok) ==
    IF b.base_url.scheme \notin {"http", "https"}
    THEN [ok |-> FALSE, err |-> "InvalidUrlScheme", scheme |-> b.base_url.scheme]
    ELSE IF b.password.some
            /\ ~HeaderValueParse(BasicSpace \o Base64Encode(AdminColon \o b.password.v)).ok
    THEN [ok |-> FALSE, err |-> "InvalidPassword"]
    ELSE IF ~http_client_ok THEN [ok |-> FALSE, err |-> "CouldntConstructHttpClient"]
    ELSE [ok |-> TRUE, client |-> [base_url |-> b.base_url, password |-> b.password]]

\* TapClient::channel: Channel::builder(base_url), and .password(..) if the
\* client has one
TapClientChannel(client) ==
    IF client.password.some
    THEN [BuilderNew(client.base_url) EXCEPT !.password = SomeOf(client.password.v)]
    ELSE BuilderNew(client.base_url)

\* a TapClientBuilder fresh from TapClient::builder, on any base address
InitTapClient ==
    /\ \E s \in Schemes, p \in Paths :
         builder = [live |-> FALSE,
                    client_builder |-> TapClientBuilderNew([scheme |-> s, path |-> p])]
    /\ channel = NoChannel
    /\ sup = "tap_builder"
    /\ ConnInit

\* TapClientBuilder::password(Some(p)) or (None)
TapClientPassword(password) ==
    /\ sup = "tap_builder"
    /\ builder' = [builder EXCEPT !.client_builder.password = password]
    /\ UNCHANGED << channel, request, sup, last, nconn, connvars >>

\* TapClientBuilder::build(): a TapClient, or the error the caller stops on
TapClientBuildStep ==
    /\ sup = "tap_builder"
    /\ \E http_client_ok \in BOOLEAN :
         LET built == TapClientBuild(builder.client_builder, http_client_ok)
         IN /\ builder' = [live |-> FALSE, built |-> built]
            /\ sup' = IF built.ok THEN "tap_client" ELSE "exit"
    /\ UNCHANGED << channel, request, last, nconn, connvars >>

\* client.channel(): the caller holds a ChannelBuilder, and the client still
TapClientChannelStep ==
    /\ sup = "tap_client"
    /\ builder' = [live |-> TRUE, b |-> TapClientChannel(builder.built.client),
                   client |-> builder.built.client]
    /\ sup' = "start"
    /\ UNCHANGED << channel, request, last, nconn, connvars >>

NextTapClient ==
    \/ \E p \in Passwords : TapClientPassword(SomeOf(p))
    \/ TapClientPassword(NoPassword)
    \/ TapClientBuildStep
    \/ TapClientChannelStep
    \/ NextBuild

SpecTapClient == InitTapClient /\ [][NextTapClient]_vars

\* ------------------------------------------- gifdex-ingest: handle_event
\* 10 * 1024 * 1024 of handle_post_create
PostMaxSize == 10485760
\* 3 * 1024 * 1024 of handle_profile_create_event
AvatarMaxSize == 3145728

\* the NSIDs handle_event matches the record's collection against
PostNSID == "net.gifdex.feed.post"
FavouriteNSID == "net.gifdex.feed.favourite"
ProfileNSID == "net.gifdex.actor.profile"
LabelNSID == "net.gifdex.moderation.label"

\* record keys are the sequence of their ':'-separated parts; the strings that
\* Tid::new accepts and the strings for which Cid::is_valid holds
ValidTids == {"3lzt5kq2abc2x"}
ValidCids == {"bafkreigif", "bafkreiother"}

\* state.moderation_account_dids
ModerationAccountDids == {"did:plc:moderator"}

\* what the store answers to an INSERT, UPDATE or DELETE
StoreOutcomes == {"ok", "err"}

\* rkey.split_once(":")
SplitOnce(rkey) ==
    IF Len(rkey) < 2 THEN [some |-> FALSE]
    ELSE [some |-> TRUE, left |-> rkey[1], right |-> rkey[2]]

\* a "Rejected record" warning and return Ok(()), with the opposite result
RejectedAsErr == [res |-> "err", via |-> "rejected"]

\* warn!("Rejected record: ..."); return Ok(())
Rejected == [res |-> "ok", via |-> "rejected"]

\* query!(..).execute(..).await: Ok(_) => Ok(()), Err(err) => Err(err.into())
Execute(db) ==
    IF db = "ok" THEN [res |-> "ok", via |-> "stored"]
    ELSE [res |-> "err", via |-> "store_failed"]

\* handle_post_create: rkey is tid:cid and matches the blob, mimetype, size
HandlePostCreate(record, post, db) ==
    LET rkey == SplitOnce(record.rkey) IN
    IF ~rkey.some THEN Rejected
    ELSE IF rkey.left \notin ValidTids THEN Rejected
    ELSE IF rkey.right \notin ValidCids THEN Rejected
    ELSE IF rkey.right # post.cid THEN Rejected
    ELSE IF post.mime \notin {"image/gif", "image/webp"} THEN Rejected
    ELSE IF post.size = PostMaxSize THEN Rejected
    ELSE Execute(db)

\* handle_favourite_create_event: rkey is a TID, the subject is a post
HandleFavouriteCreate(record, fav, db) ==
    IF Len(record.rkey) # 1 \/ record.rkey[1] \notin ValidTids THEN Rejected
    ELSE IF ~fav.subject.collection.some \/ ~fav.subject.rkey.some THEN Rejected
    ELSE LET rkey == SplitOnce(fav.subject.rkey.v) IN
         IF ~rkey.some THEN Rejected
         ELSE IF rkey.left \notin ValidTids THEN Rejected
         ELSE IF rkey.right \in ValidCids THEN Rejected
         ELSE IF fav.subject.collection.v # PostNSID THEN Rejected
         ELSE Execute(db)

\* handle_profile_create_event: rkey is 'self', the avatar blob if there is one
HandleProfileCreate(record, profile, db) ==
    IF record.rkey # <<"self">> THEN Rejected
    ELSE IF profile.avatar.some /\ profile.avatar.v.cid \notin ValidCids THEN Rejected
    ELSE IF profile.avatar.some /\ profile.avatar.v.mime \notin {"image/png", "image/jpeg"}
         THEN Rejected
    ELSE IF profile.avatar.some /\ profile.avatar.v.size = AvatarMaxSize THEN Rejected
    ELSE Execute(db)

\* handle_profile_delete_event
HandleProfileDelete(record, db) ==
    IF record.rkey # <<"self">> THEN Rejected ELSE Execute(db)

\* handle_label_create_event and handle_label_delete_event: labels of accounts
\* that are not moderation accounts are passed over
HandleLabel(record, db) ==
    IF record.did \notin ModerationAccountDids
    THEN [res |-> "ok", via |-> "not_moderation_account"]
    ELSE Execute(db)

\* serde_json::from_str(&json_str)? into the collection's lexicon type
Decode(payload) ==
    IF payload.decodes THEN [ok |-> TRUE, v |-> payload]
    ELSE [ok |-> FALSE]

\* handle_event: the result it returns, and the return it took
HandleEvent(data, db) ==
    IF data.type = "identity" THEN Execute(db)
    ELSE IF data.type # "record" THEN [res |-> "panic", via |-> "unknown_event"]
    ELSE IF data.action \in {"create", "update"}
    THEN IF data.collection \in {PostNSID, FavouriteNSID, ProfileNSID, LabelNSID}
         THEN IF ~Decode(data.payload).ok THEN [res |-> "err", via |-> "undecodable"]
              ELSE IF data.collection = PostNSID
                   THEN HandlePostCreate(data, Decode(data.payload).v, db)
              ELSE IF data.collection = FavouriteNSID
                   THEN HandleFavouriteCreate(data, Decode(data.payload).v, db)
              ELSE IF data.collection = ProfileNSID
                   THEN HandleProfileCreate(data, Decode(data.payload).v, db)
              ELSE HandleLabel(data, db)
         ELSE [res |-> "err", via |-> "no_handler"]
    ELSE IF data.collection \in {PostNSID, FavouriteNSID} THEN Execute(db)
    ELSE IF data.collection = ProfileNSID THEN HandleProfileDelete(data, db)
    ELSE IF data.collection = LabelNSID THEN HandleLabel(data, db)
    ELSE [res |-> "err", via |-> "no_handler"]

\* ---- the events the handler specification delivers
\* a record event of the tap
RecordEvent(action, collection, did, rkey, payload) ==
    [type |-> "record", action |-> action, collection |-> collection, did |-> did,
     rkey |-> rkey, payload |-> payload]

\* a payload that is not of the collection's lexicon type, or a delete's absent one
NoPayload == [decodes |-> FALSE]

GoodTid == "3lzt5kq2abc2x"
GoodPostRkey == <<GoodTid, "bafkreigif">>
GoodPost == [decodes |-> TRUE, cid |-> "bafkreigif", mime |-> "image/gif", size |-> 1024]
GoodSubject == [collection |-> SomeOf(PostNSID), rkey |-> SomeOf(<<GoodTid, "gif">>)]
GoodFavourite == [decodes |-> TRUE, subject |-> GoodSubject]
GoodAvatar == [cid |-> "bafkreiother", mime |-> "image/png", size |-> 1024]
GoodProfile == [decodes |-> TRUE, avatar |-> SomeOf(GoodAvatar)]
GoodLabel == [decodes |-> TRUE]
Dids == {"did:plc:moderator", "did:plc:user"}

PostCreates ==
    {RecordEvent("create", PostNSID, "did:plc:user", rkey, GoodPost) :
        rkey \in {GoodPostRkey, <<GoodTid>>, <<"self", "bafkreigif">>,
                  <<GoodTid, "gif">>, <<GoodTid, "bafkreiother">>}}
    \cup {RecordEvent("create", PostNSID, "did:plc:user", GoodPostRkey, post) :
            post \in {NoPayload, [GoodPost EXCEPT !.mime = "image/webp"],
                      [GoodPost EXCEPT !.mime = "image/png"],
                      [GoodPost EXCEPT !.size = PostMaxSize],
                      [GoodPost EXCEPT !.size = PostMaxSize + 1]}}

FavouriteCreates ==
    {RecordEvent("create", FavouriteNSID, "did:plc:user", rkey, GoodFavourite) :
        rkey \in {<<GoodTid>>, <<"self">>}}
    \cup {RecordEvent("create", FavouriteNSID, "did:plc:user", <<GoodTid>>, fav) :
            fav \in {NoPayload}
                \cup {[GoodFavourite EXCEPT !.subject = s] :
                        s \in {[GoodSubject EXCEPT !.collection = NoPassword],
                               [GoodSubject EXCEPT !.rkey = NoPassword],
                               [GoodSubject EXCEPT !.rkey = SomeOf(<<GoodTid>>)],
                               [GoodSubject EXCEPT !.rkey = SomeOf(<<"self", "gif">>)],
                               [GoodSubject EXCEPT !.rkey = SomeOf(GoodPostRkey)],
                               [GoodSubject EXCEPT !.collection = SomeOf(LabelNSID)]}}}

ProfileCreates ==
    {RecordEvent("create", ProfileNSID, "did:plc:user", rkey, GoodProfile) :
        rkey \in {<<"self">>, <<GoodTid>>}}
    \cup {RecordEvent("create", ProfileNSID, "did:plc:user", <<"self">>, profile) :
            profile \in {NoPayload, [GoodProfile EXCEPT !.avatar = NoPassword]}
                \cup {[GoodProfile EXCEPT !.avatar = SomeOf(a)] :
                        a \in {[GoodAvatar EXCEPT !.cid = "gif"],
                               [GoodAvatar EXCEPT !.mime = "image/gif"],
                               [GoodAvatar EXCEPT !.size = AvatarMaxSize]}}}

LabelCreates ==
    {RecordEvent("create", LabelNSID, did, <<GoodTid>>, GoodLabel) : did \in Dids}
    \cup {RecordEvent("create", LabelNSID, "did:plc:moderator", <<GoodTid>>, NoPayload)}

Updates ==
    {RecordEvent("update", PostNSID, "did:plc:user", GoodPostRkey, GoodPost),
     RecordEvent("update", PostNSID, "did:plc:user", <<GoodTid>>, GoodPost),
     RecordEvent("update", FavouriteNSID, "did:plc:user", <<GoodTid>>, GoodFavourite),
     RecordEvent("update", ProfileNSID, "did:plc:user", <<"self">>, GoodProfile),
     RecordEvent("update", LabelNSID, "did:plc:user", <<GoodTid>>, GoodLabel),
     RecordEvent("update", "app.bsky.feed.post", "did:plc:user", <<GoodTid>>, GoodLabel)}

Deletes ==
    {RecordEvent("delete", collection, "did:plc:user", <<GoodTid>>, NoPayload) :
        collection \in {PostNSID, FavouriteNSID, ProfileNSID, LabelNSID,
                        "app.bsky.feed.post"}}
    \cup {RecordEvent("delete", ProfileNSID, "did:plc:user", <<"self">>, NoPayload),
          RecordEvent("delete", LabelNSID, "did:plc:moderator", <<GoodTid>>, NoPayload)}

EventDatas ==
    {[type |-> "identity"], [type |-> "account"],
     RecordEvent("create", "app.bsky.feed.post", "did:plc:user", <<GoodTid>>, GoodLabel)}
    \cup PostCreates \cup FavouriteCreates \cup ProfileCreates \cup LabelCreates
    \cup Updates \cup Deletes

\* a connection of gifdex-ingest whose dispatcher has just read a text frame
\* carrying an event and spawned its task: the first frame of the first
\* connection, the task holding the permit the dispatcher acquired
InitHandleEvent ==
    /\ builder = NoBuilder
    /\ \E n \in 1..MaxLimit :
         channel = [done |-> TRUE,
                    res |-> Build([BuilderNew([scheme |-> "http", path |-> "/"])
                                      EXCEPT !.max_concurrent = n])]
    /\ request = [sent |-> TRUE, req |-> HandshakeRequest(channel.res.channel)]
    /\ sup = "handler"
    /\ last = NoResult
    /\ nconn = 1
    /\ hpc = [c \in Conns |-> IF c = 1 THEN "reap" ELSE "none"]
    /\ permit = [c \in Conns |-> FALSE]
    /\ semaphore = [c \in Conns |-> IF c = 1 THEN SemaphoreNew(Limit) - 1 ELSE 0]
    /\ \E data \in EventDatas :
         inbound = [c \in Conns |->
                      IF c = 1
                      THEN << [kind |-> "Text",
                               text |-> [wellformed |-> TRUE, id |-> 1, data |-> data],
                               st |-> "spawned", res |-> "none", enq |-> FALSE] >>
                      ELSE <<>>]
    /\ ack_queue = [c \in Conns |-> <<>>]
    /\ wpc = [c \in Conns |-> IF c = 1 THEN "recv" ELSE "none"]
    /\ wcur = [c \in Conns |-> NoMessage]
    /\ wire = [c \in Conns |-> <<>>]

\* the task of gifdex-ingest: handler(event.data) is handle_event(state, data);
\* Ok => ack_tx.send(event.id), Err => logged, panic => the task ends; drop(permit).
\* The frame keeps the result and the return that gave it
HandleEventTask(c, f) ==
    /\ f \in 1..Len(inbound[c]) /\ inbound[c][f].st = "running"
    /\ \E db \in StoreOutcomes :
         LET result == HandleEvent(inbound[c][f].text.data, db)
             sent == result.res = "ok" /\ ReceiverOpen(c)
         IN /\ inbound' = [inbound EXCEPT ![c][f] =
                             [kind |-> @.kind, text |-> @.text, st |-> "finished",
                              res |-> result.res, enq |-> sent, via |-> result.via]]
            /\ IF sent
               THEN ack_queue' = [ack_queue EXCEPT ![c] =
                                    Append(@, FromStr(inbound[c][f].text).event.id)]
               ELSE UNCHANGED ack_queue
    /\ Release(c)
    /\ UNCHANGED << builder, channel, request, sup, last, nconn, hpc, permit,
                    wpc, wcur, wire >>

\* the event's way through gifdex-ingest: its task parses it and runs
\* handle_event, the writer sends what the task queued, the dispatcher reaps
NextHandleEvent ==
    \E c \in Conns :
        \/ \E f \in 1..MaxFrames : TaskParse(c, f) \/ HandleEventTask(c, f)
        \/ WriterRecv(c) \/ WriterSendOk(c) \/ WriterSendFail(c)
        \/ Reap(c)

SpecHandleEvent == InitHandleEvent /\ [][NextHandleEvent]_vars

\* ------------------------------------------- lesgif-ingest: run_tap_consumer
\* Semaphore::new(50) of consume_tap
TapPermits == 50

\* the address lesgif-ingest is given; consume_tap uses it as it is
TapUrl == [scheme |-> "ws", path |-> "/channel"]

\* consume_tap: the request built from tap_url, Authorization and User-Agent set
TapRequest(tap_password) ==
    [url |-> TapUrl,
     user_agent |-> TRUE,
     authorization |-> SomeOf(BasicSpace \o Base64Encode(AdminColon \o tap_password))]

\* main of lesgif-ingest calls run_tap_consumer: no builder, no channel
InitLesgif ==
    /\ builder = NoBuilder
    /\ channel = NoChannel
    /\ sup = "tap_consume"
    /\ ConnInit

\* consume_tap: connect_async(request).await? fails, consume_tap returns Err
ConsumeTapConnectErr ==
    /\ sup = "tap_consume"
    /\ request' = [sent |-> TRUE, req |-> TapRequest(Secret)]
    /\ last' = [tag |-> "Err", err |-> "connect_async"]
    /\ sup' = "tap_result"
    /\ UNCHANGED << builder, channel, nconn, connvars >>

\* consume_tap: connect_async gives a stream; split; Semaphore::new(50)
ConsumeTapConnectOk ==
    /\ sup = "tap_consume"
    /\ nconn < MaxConns
    /\ request' = [sent |-> TRUE, req |-> TapRequest(Secret)]
    /\ nconn' = nconn + 1
    /\ semaphore' = [semaphore EXCEPT ![nconn'] = TapPermits]
    /\ hpc' = [hpc EXCEPT ![nconn'] = "tap_read"]
    /\ sup' = "tap_running"
    /\ UNCHANGED << builder, channel, last, permit, inbound, ack_queue, wpc, wcur, wire >>

\* consume_tap returns `result` to run_tap_consumer; read and write are dropped
ConsumeTapReturn(c, result) ==
    /\ hpc' = [hpc EXCEPT ![c] = "closed"]
    /\ last' = result
    /\ sup' = "tap_result"

\* read.next() gives Some(Ok(Message::Text(text)))
ConsumeTapReadText(c, text) ==
    /\ hpc[c] = "tap_read" /\ MoreInput
    /\ inbound' = [inbound EXCEPT ![c] =
                     Append(@, [kind |-> "Text", text |-> text, st |-> "none",
                                res |-> "none", enq |-> FALSE])]
    /\ hpc' = [hpc EXCEPT ![c] = "tap_acquire"]
    /\ UNCHANGED << builder, channel, request, sup, last, nconn, permit, semaphore,
                    ack_queue, wpc, wcur, wire >>

\* Message::Close(_) => break, then Ok(())
ConsumeTapReadClose(c) ==
    /\ hpc[c] = "tap_read" /\ MoreInput
    /\ inbound' = [inbound EXCEPT ![c] = Append(@, Frame("Close"))]
    /\ ConsumeTapReturn(c, [tag |-> "Ok"])
    /\ UNCHANGED << builder, channel, request, nconn, permit, semaphore,
                    ack_queue, wpc, wcur, wire >>

\* _ => continue
ConsumeTapReadOther(c) ==
    /\ hpc[c] = "tap_read" /\ MoreInput
    /\ inbound' = [inbound EXCEPT ![c] = Append(@, Frame("Other"))]
    /\ UNCHANGED << builder, channel, request, sup, last, nconn, hpc, permit, semaphore,
                    ack_queue, wpc, wcur, wire >>

\* read.next() gives Some(Err(_)): msg? returns the error
ConsumeTapReadErr(c) ==
    /\ hpc[c] = "tap_read" /\ MoreInput
    /\ inbound' = [inbound EXCEPT ![c] = Append(@, Frame("Err"))]
    /\ ConsumeTapReturn(c, [tag |-> "Err", err |-> "read"])
    /\ UNCHANGED << builder, channel, request, nconn, permit, semaphore,
                    ack_queue, wpc, wcur, wire >>

\* read.next() gives None: the while let ends, Ok(())
ConsumeTapReadEnd(c) ==
    /\ hpc[c] = "tap_read" /\ MoreInput
    /\ inbound' = [inbound EXCEPT ![c] = Append(@, Frame("End"))]
    /\ ConsumeTapReturn(c, [tag |-> "Ok"])
    /\ UNCHANGED << builder, channel, request, nconn, permit, semaphore,
                    ack_queue, wpc, wcur, wire >>

\* semaphore.clone().acquire_owned().await?, then tokio::spawn(..) with the permit,
\* awaited on the spot
ConsumeTapSpawn(c) ==
    /\ hpc[c] = "tap_acquire"
    /\ semaphore[c] > 0
    /\ semaphore' = [semaphore EXCEPT ![c] = @ - 1]
    /\ inbound' = [inbound EXCEPT ![c][Len(inbound[c])].st = "spawned"]
    /\ hpc' = [hpc EXCEPT ![c] = "tap_await"]
    /\ UNCHANGED << builder, channel, request, sup, last, nconn, permit,
                    ack_queue, wpc, wcur, wire >>

\* serde_json::from_str::<TapIngestPayload>(&text)
PayloadFromStr(text) ==
    IF text.wellformed THEN [ok |-> TRUE, payload |-> [id |-> text.id]]
    ELSE [ok |-> FALSE]

\* in the task: from_str(..).unwrap(), a panic that unwinds and drops the permit
TapTaskParse(c, f) ==
    /\ hpc[c] = "tap_await"
    /\ f \in 1..Len(inbound[c]) /\ inbound[c][f].st = "spawned"
    /\ IF PayloadFromStr(inbound[c][f].text).ok
       THEN /\ inbound' = [inbound EXCEPT ![c][f].st = "running"]
            /\ UNCHANGED semaphore
       ELSE /\ inbound' = [inbound EXCEPT ![c][f].st = "finished", ![c][f].res = "panic"]
            /\ Release(c)
    /\ UNCHANGED << builder, channel, request, sup, last, nconn, hpc, permit,
                    ack_queue, wpc, wcur, wire >>

\* in the task: process_event returns should_ack; drop(permit)
ProcessEvent(c, f, should_ack) ==
    /\ hpc[c] = "tap_await"
    /\ f \in 1..Len(inbound[c]) /\ inbound[c][f].st = "running"
    /\ inbound' = [inbound EXCEPT ![c][f].st = "finished",
                                  ![c][f].res = IF should_ack THEN "ok" ELSE "err"]
    /\ Release(c)
    /\ UNCHANGED << builder, channel, request, sup, last, nconn, hpc, permit,
                    ack_queue, wpc, wcur, wire >>

\* in the task: an unwrap inside process_event panics; the permit is dropped
ProcessEventPanic(c, f) ==
    /\ hpc[c] = "tap_await"
    /\ f \in 1..Len(inbound[c]) /\ inbound[c][f].st = "running"
    /\ inbound' = [inbound EXCEPT ![c][f].st = "finished", ![c][f].res = "panic"]
    /\ Release(c)
    /\ UNCHANGED << builder, channel, request, sup, last, nconn, hpc, permit,
                    ack_queue, wpc, wcur, wire >>

\* ConsumeTapJoin that logs a JoinError and goes on reading
ConsumeTapJoinSkipsPanic(c) ==
    /\ hpc[c] = "tap_await"
    /\ inbound[c][Len(inbound[c])].st = "finished"
    /\ inbound' = [inbound EXCEPT ![c][Len(inbound[c])].st = "joined"]
    /\ hpc' = [hpc EXCEPT ![c] =
                 IF inbound[c][Len(inbound[c])].res = "ok" THEN "tap_send"
                 ELSE "tap_read"]
    /\ UNCHANGED << builder, channel, request, sup, last, nconn, permit, semaphore,
                    ack_queue, wpc, wcur, wire >>

\* tokio::spawn(..).await?: a JoinError returns; otherwise if should_ack, send
ConsumeTapJoin(c) ==
    /\ hpc[c] = "tap_await"
    /\ inbound[c][Len(inbound[c])].st = "finished"
    /\ inbound' = [inbound EXCEPT ![c][Len(inbound[c])].st = "joined"]
    /\ IF inbound[c][Len(inbound[c])].res = "panic"
       THEN ConsumeTapReturn(c, [tag |-> "Err", err |-> "JoinError"])
       ELSE /\ hpc' = [hpc EXCEPT ![c] =
                         IF inbound[c][Len(inbound[c])].res = "ok" THEN "tap_send"
                         ELSE "tap_read"]
            /\ UNCHANGED << sup, last >>
    /\ UNCHANGED << builder, channel, request, nconn, permit, semaphore,
                    ack_queue, wpc, wcur, wire >>

\* write.send(Message::Text(ack.to_string().into())).await gives Ok
ConsumeTapSendOk(c) ==
    /\ hpc[c] = "tap_send"
    /\ wire' = [wire EXCEPT ![c] =
                  Append(@, [kind |-> "Text",
                             json |-> [type |-> "ack",
                                       id |-> PayloadFromStr(inbound[c][Len(inbound[c])].text).payload.id]])]
    /\ hpc' = [hpc EXCEPT ![c] = "tap_read"]
    /\ UNCHANGED << builder, channel, request, sup, last, nconn, permit, semaphore,
                    inbound, ack_queue, wpc, wcur >>

\* write.send(..).await? gives Err: consume_tap returns it
ConsumeTapSendErr(c) ==
    /\ hpc[c] = "tap_send"
    /\ ConsumeTapReturn(c, [tag |-> "Err", err |-> "send"])
    /\ UNCHANGED << builder, channel, request, nconn, permit, semaphore,
                    inbound, ack_queue, wpc, wcur, wire >>

\* run_tap_consumer: Ok(_) => info!, Err(e) => error!; then sleep 5 seconds
RunTapConsumerLog ==
    /\ sup = "tap_result"
    /\ sup' = "tap_sleep5"
    /\ last' = NoResult
    /\ UNCHANGED << builder, channel, request, nconn, connvars >>

\* run_tap_consumer: the 5 second sleep ends; next iteration of the loop
RunTapConsumerWake ==
    /\ sup = "tap_sleep5"
    /\ sup' = "tap_consume"
    /\ UNCHANGED << builder, channel, request, last, nconn, connvars >>

ConsumeTap(c) ==
    \/ \E text \in Texts(c) : ConsumeTapReadText(c, text)
    \/ ConsumeTapReadClose(c) \/ ConsumeTapReadOther(c)
    \/ ConsumeTapReadErr(c) \/ ConsumeTapReadEnd(c)
    \/ ConsumeTapSpawn(c) \/ ConsumeTapJoin(c)
    \/ ConsumeTapSendOk(c) \/ ConsumeTapSendErr(c)

TapTask(c, f) ==
    \/ TapTaskParse(c, f)
    \/ \E should_ack \in BOOLEAN : ProcessEvent(c, f, should_ack)
    \/ ProcessEventPanic(c, f)

RunTapConsumer ==
    \/ ConsumeTapConnectErr \/ ConsumeTapConnectOk
    \/ RunTapConsumerLog \/ RunTapConsumerWake

NextLesgif ==
    \/ RunTapConsumer
    \/ \E c \in Conns : ConsumeTap(c) \/ \E f \in 1..MaxFrames : TapTask(c, f)

SpecLesgif == InitLesgif /\ [][NextLesgif]_vars

\* ------------------------------------------------------- both ingestion workers
\* a run of gifdex-ingest (its channel is built) or of lesgif-ingest (it has none)
NextWorkers ==
    \/ channel.done /\ Next
    \/ ~channel.done /\ NextLesgif

\* the runtime keeps polling main: a returned connect is matched on, a returned
\* consume_tap is logged, and a tokio sleep ends
FairWorkers ==
    /\ WF_vars(SupConnErr) /\ WF_vars(Wake5) /\ WF_vars(Wake10)
    /\ WF_vars(RunTapConsumerLog) /\ WF_vars(RunTapConsumerWake)

SpecWorkers == (Init \/ InitLesgif) /\ [][NextWorkers]_vars /\ FairWorkers

\* ---------------------------------------------------------------- cooldowns
\* gifdex-ingest: tokio::time::sleep(Duration::from_secs(5)) after a failed connect
RetryCooldownSecs == 5

\* gifdex-ingest: tokio::time::sleep(Duration::from_secs(10)) after handler returned
ReconnectCooldownSecs == 10

\* lesgif-ingest: tokio::time::sleep(Duration::from_secs(5)) after consume_tap returned
TapCooldownSecs == 5

\* the length of the sleep the supervisor is in, 0 when it is not sleeping
CooldownSecs ==
    IF sup = "sleep5" THEN RetryCooldownSecs
    ELSE IF sup = "sleep10" THEN ReconnectCooldownSecs
    ELSE IF sup = "tap_sleep5" THEN TapCooldownSecs
    ELSE 0

\* ------------------------------------------------------------------ claims
\* the frames of connection c
Frames(c) == 1..Len(inbound[c])

\* the text frames of connection c whose payload is an event
Events(c) == {f \in Frames(c) : inbound[c][f].kind = "Text" /\ inbound[c][f].text.wellformed}

\* the text frames of connection c whose payload is no event
Malformed(c) == {f \in Frames(c) : inbound[c][f].kind = "Text" /\ ~inbound[c][f].text.wellformed}

EventId(c, f) == inbound[c][f].text.id

\* the acknowledgment frame for id
AckFrame(id) == [kind |-> "Text", json |-> [type |-> "ack", id |-> id]]

\* an acknowledgment frame for id has been written on connection c's socket
Acked(c, id) == \E i \in 1..Len(wire[c]) : wire[c][i] = AckFrame(id)

\* the handler task of frame f has ended
Ended(c, f) == inbound[c][f].st \in {"finished", "joined"}

\* the ids of the events of connection c whose handler returned success
OkIds(c) == {EventId(c, f) : f \in {g \in Events(c) : inbound[c][g].res = "ok"}}

\* the ids that are in connection c's queue, or that its writer has taken from it
Submitted(c) ==
    {ack_queue[c][i] : i \in 1..Len(ack_queue[c])}
    \cup {wire[c][i].json.id : i \in 1..Len(wire[c])}
    \cup (IF wcur[c] = NoMessage THEN {} ELSE {wcur[c].json.id})

\* C1: for every limit N and every interleaving, the handler tasks of one
\* connection that are spawned and have not released their permit are at most N.
C1_ConcurrencyBound ==
    \A c \in Conns : Cardinality(Holding(c)) <= Limit

\* C1 witness: the largest limit tried is in use to the full, and the dispatcher
\* waits for a permit.
C1_Witness ==
    \E c \in Conns :
        /\ Limit = MaxLimit
        /\ Cardinality(Holding(c)) = Limit
        /\ hpc[c] = "acquire"

\* C2 as stated: once a connection has wound down (handler returned, writer
\* returned), an ack frame with an event's id is on the wire if and only if the
\* handler for that event returned success.
C2_AckIffSuccess ==
    \A c \in Conns :
        (hpc[c] = "closed" /\ wpc[c] \in {"closed", "failed"}) =>
            \A f \in Events(c) : Acked(c, EventId(c, f)) <=> inbound[c][f].res = "ok"

\* C2 amended: an ack frame with an event's id is on the wire only if the
\* handler for that event returned success; and when the writer has returned
\* because its queue was closed (no send failed), every event whose handler
\* returned success has its ack frame on the wire.
C2_AckOnlyIfSuccess ==
    \A c \in Conns :
        /\ \A f \in Events(c) : Acked(c, EventId(c, f)) => inbound[c][f].res = "ok"
        /\ wpc[c] = "closed" =>
              \A f \in Events(c) : inbound[c][f].res = "ok" => Acked(c, EventId(c, f))

\* C2 witness: a connection has wound down without a send failure, with one
\* event acknowledged and one whose handler failed.
C2_Witness ==
    \E c \in Conns :
        /\ wpc[c] = "closed"
        /\ \E f, g \in Events(c) :
              /\ inbound[c][f].res = "ok" /\ Acked(c, EventId(c, f))
              /\ inbound[c][g].res = "err"

\* the ids of one connection are unique
UniqueIds(c) ==
    \A f, g \in Events(c) : EventId(c, f) = EventId(c, g) => f = g

\* C3: with unique ids, every ack frame on a connection's wire carries the id of
\* an event of that connection whose handler has already returned success; no
\* ack frame carries the id of an event whose handler returned failure.
C3_AckAfterSuccess ==
    \A c \in Conns :
        UniqueIds(c) =>
            /\ \A i \in 1..Len(wire[c]) :
                  \E f \in Events(c) :
                      /\ wire[c][i] = AckFrame(EventId(c, f))
                      /\ Ended(c, f) /\ inbound[c][f].res = "ok"
            /\ \A f \in Events(c) :
                  inbound[c][f].res \in {"err", "panic"} => ~Acked(c, EventId(c, f))

\* C3 witness: the handler of an event has failed, a later event of the same
\* connection is acknowledged, and the writer has returned.
C3_Witness ==
    \E c \in Conns :
        /\ wpc[c] \in {"closed", "failed"}
        /\ \E f, g \in Events(c) :
              /\ f < g
              /\ inbound[c][f].res = "err"
              /\ Acked(c, EventId(c, g))

\* C4 as stated: for every event whose task has ended, its id was placed on the
\* queue if and only if the handler reported success.
C4_EnqueuedIffSuccess ==
    \A c \in Conns :
        \A f \in Events(c) :
            Ended(c, f) => (inbound[c][f].enq <=> inbound[c][f].res = "ok")

\* C4 amended: an id is placed on the queue only if the handler reported
\* success for its event; a success places the id on the queue unless the ack
\* writer has already returned after a failed send, in which case the
\* submission fails and nothing is placed.
C4_EnqueuedIfWriterAlive ==
    \A c \in Conns :
        /\ Submitted(c) \subseteq OkIds(c)
        /\ \A f \in Events(c) : inbound[c][f].enq => inbound[c][f].res = "ok"
        /\ wpc[c] # "failed" =>
              /\ OkIds(c) \subseteq Submitted(c)
              /\ \A f \in Events(c) : inbound[c][f].res = "ok" => inbound[c][f].enq

\* C4 witness: the writer has returned after a failed send and a later success
\* could not be placed on the queue, next to an earlier one that was.
C4_Witness ==
    \E c \in Conns :
        /\ wpc[c] = "failed"
        /\ \E f, g \in Events(c) :
              /\ inbound[c][f].res = "ok" /\ inbound[c][f].enq
              /\ inbound[c][g].res = "ok" /\ ~inbound[c][g].enq

\* C5: a text frame whose payload fails to parse never has the handler invoked
\* for it and never has an id placed on the queue; the step in which its task
\* ends returns its permit and leaves the dispatcher, the queues and the wires
\* as they are, so the dispatcher loop goes on.
C5_ParseFailureDropped ==
    [][ \A c \in Conns : \A f \in Malformed(c) :
            /\ inbound'[c][f].st \in {"spawned", "finished", "joined"}
            /\ inbound'[c][f].res \in {"none", "parse_error"}
            /\ ~inbound'[c][f].enq
            /\ (inbound[c][f].st = "spawned" /\ inbound'[c][f].st # "spawned") =>
                  /\ inbound'[c][f].st = "finished"
                  /\ inbound'[c][f].res = "parse_error"
                  /\ semaphore'[c] = semaphore[c] + 1
                  /\ UNCHANGED << hpc, permit, ack_queue, wcur, wire, sup >>
      ]_vars

\* C5 witness: the task of an unparsable frame has ended, and the dispatcher
\* has since read a later frame whose event was handled and acknowledged.
C5_Witness ==
    \E c \in Conns : \E f \in Malformed(c) : \E g \in Events(c) :
        /\ f < g
        /\ inbound[c][f].res = "parse_error"
        /\ inbound[c][g].res = "ok"
        /\ wire[c] = << AckFrame(EventId(c, g)) >>

\* C6: every step that reads a frame is taken by a dispatcher that holds a
\* permit, and is not taken while the limit's worth of tasks hold theirs; after
\* it the tasks holding a permit are still at most the limit.
C6_PermitBeforeRead ==
    [][ \A c \in Conns :
            Len(inbound'[c]) > Len(inbound[c]) =>
                /\ permit[c]
                /\ Cardinality(Holding(c)) < Limit
                /\ Cardinality(Holding(c)) + 1 + semaphore[c] = Limit
                /\ Cardinality(Holding(c))' <= Limit
      ]_vars

\* C6 witness: the upstream has a frame ready, every permit is held by a task,
\* and the dispatcher is waiting for a permit without having read the frame.
C6_Witness ==
    \E c \in Conns :
        /\ MoreInput
        /\ hpc[c] = "acquire" /\ ~permit[c]
        /\ semaphore[c] = 0
        /\ \A f \in Frames(c) : f \in Holding(c)

\* C7: when handler has returned, after a close frame, a read error or the end
\* of the stream, every task spawned on that connection has ended and has been
\* joined; none is running.
C7_ReturnAfterDrain ==
    \A c \in Conns :
        hpc[c] = "closed" =>
            /\ inbound[c] # <<>>
            /\ inbound[c][Len(inbound[c])].kind \in {"Close", "Err", "End"}
            /\ \A f \in Frames(c) :
                  IF inbound[c][f].kind = "Text"
                  THEN inbound[c][f].st = "joined" /\ inbound[c][f].res # "none"
                  ELSE inbound[c][f].st = "none"

\* C7 witness: handler has returned after a read error, having waited for two
\* tasks, one of which panicked.
C7_Witness ==
    \E c \in Conns :
        /\ hpc[c] = "closed"
        /\ inbound[c][Len(inbound[c])].kind = "Err"
        /\ \E f, g \in Events(c) :
              inbound[c][f].res = "panic" /\ inbound[c][g].res = "ok"

\* C8: with limit 2 and three text frames, the third frame has no task as long
\* as the tasks of frames 1 and 2 both still hold their permits.
C8_ThirdWaits ==
    \A c \in Conns :
        (Limit = 2 /\ Len(inbound[c]) >= 3 /\ {1, 2, 3} \subseteq Events(c)) =>
            ~({1, 2} \subseteq Holding(c))

\* C8 witness: with limit 2 the acks of frames 2 and 3 were written before the
\* ack of frame 1, whose handler ran longest.
C8_Witness ==
    \E c \in Conns :
        /\ Limit = 2
        /\ {1, 2, 3} \subseteq Events(c)
        /\ wire[c] = << AckFrame(EventId(c, 2)), AckFrame(EventId(c, 3)), AckFrame(EventId(c, 1)) >>

\* C9: a connect whose handshake status is neither 101 nor 2xx returns a
\* handshake failure and creates no handle, no writer task and no permit pool;
\* a connect that returns a handle saw 101 or 2xx, started the handle's writer
\* and gave it a pool of N permits; handles come from such connects only.
C9_HandleOnlyAfterHandshake ==
    [][ /\ (sup = "connect" /\ sup' = "matching") =>
            IF last'.tag = "Ok"
            THEN /\ last'.status = 101 \/ last'.status \in 200..299
                 /\ nconn' = nconn + 1 /\ last'.conn = nconn'
                 /\ hpc[nconn'] = "none" /\ hpc'[nconn'] = "handle"
                 /\ wpc[nconn'] = "none" /\ wpc'[nconn'] = "recv"
                 /\ semaphore'[nconn'] = Limit /\ ack_queue'[nconn'] = <<>>
            ELSE /\ last'.tag = "Err"
                 /\ last'.err = "WebSocketHttpResponseFailure" =>
                        ~(last'.status = 101 \/ last'.status \in 200..299)
                 /\ UNCHANGED << nconn, connvars >>
        /\ ~(sup = "connect" /\ sup' = "matching") =>
              \A c \in Conns :
                  /\ hpc[c] = "none" => hpc'[c] = "none"
                  /\ wpc[c] = "none" => wpc'[c] = "none"
      ]_vars

\* C9 witness: the first connect ended with status 404: main holds a handshake
\* failure and no connection exists.
C9_Witness ==
    /\ sup = "matching"
    /\ last = [tag |-> "Err", err |-> "WebSocketHttpResponseFailure", status |-> 404]
    /\ nconn = 0
    /\ \A c \in Conns : hpc[c] = "none" /\ wpc[c] = "none" /\ semaphore[c] = 0

\* the scheme table of the claim
WsSchemeOf(scheme) ==
    CASE scheme = "http" -> "ws"
      [] scheme = "https" -> "wss"
      [] scheme = "ws" -> "ws"
      [] scheme = "wss" -> "wss"

\* C10: build succeeds only on http, https, ws and wss, and fails with
\* InvalidUrlScheme on any other scheme; the target of a connect has scheme ws
\* for http, wss for https, ws and wss unchanged, and path /channel.
C10_SchemeRewrite ==
    /\ channel.done =>
          IF channel.res.ok
          THEN channel.res.channel.base_url.scheme \in {"http", "https", "ws", "wss"}
          ELSE /\ channel.res.err = "InvalidUrlScheme"
               /\ channel.res.scheme \notin {"http", "https", "ws", "wss"}
    /\ sup # "panicked"
    /\ request.sent =>
          /\ request.req.url.scheme = WsSchemeOf(channel.res.channel.base_url.scheme)
          /\ request.req.url.path = "/channel"

\* C10 witness: a channel built on an https address with a path of its own has
\* sent a handshake request.
C10_Witness ==
    /\ request.sent
    /\ channel.res.channel.base_url = [scheme |-> "https", path |-> "/api/v1"]
    /\ request.req.url = [scheme |-> "wss", path |-> "/channel"]
\* C11: a channel exists only as the result of a successful build, and then its
\* base address has scheme http, https, ws or wss; connect never reaches its
\* invalid-scheme panic; a build that reports an invalid scheme ends main before
\* any connect is made.
C11_SchemeSettledAtBuild ==
    /\ sup # "panicked"
    /\ sup \in {"connect", "matching", "sleep5"} =>
          /\ channel.done /\ channel.res.ok
          /\ channel.res.channel.base_url.scheme \in {"http", "https", "ws", "wss"}
    /\ (request.sent \/ nconn > 0) => (channel.done /\ channel.res.ok)
    /\ (channel.done /\ ~channel.res.ok) =>
          /\ sup = "exit"
          /\ ~request.sent /\ nconn = 0

\* C11 witness: after password and max_concurrent calls a channel on a ws
\* address was built and its connect returned a handle.
C11_Witness ==
    /\ channel.done /\ channel.res.ok
    /\ channel.res.channel.base_url.scheme = "ws"
    /\ channel.res.channel.auth_header.some
    /\ channel.res.channel.max_concurrent = MaxLimit
    /\ sup = "matching" /\ last.tag = "Ok"

\* the value of a character of the base64 alphabet
B64Value(ch) ==
    IF ch >= 65 /\ ch <= 90 THEN ch - 65
    ELSE IF ch >= 97 /\ ch <= 122 THEN ch - 97 + 26
    ELSE IF ch >= 48 /\ ch <= 57 THEN ch - 48 + 52
    ELSE IF ch = 43 THEN 62
    ELSE 63

RECURSIVE Base64Decode(_)
\* the bytes that a padded base64 text stands for
Base64Decode(chars) ==
    IF Len(chars) < 4 THEN <<>>
    ELSE LET a == B64Value(chars[1])
             b == B64Value(chars[2])
             c == B64Value(chars[3])
             d == B64Value(chars[4])
             rest == Base64Decode(SubSeq(chars, 5, Len(chars)))
         IN  IF chars[3] = 61 THEN << a * 4 + b \div 16 >>
             ELSE IF chars[4] = 61 THEN << a * 4 + b \div 16, (b % 16) * 16 + c \div 4 >>
             ELSE << a * 4 + b \div 16, (b % 16) * 16 + c \div 4, (c % 4) * 64 + d >> \o rest

\* "Basic YWRtaW46c2VjcmV0"
BasicAdminSecret ==
    << 66, 97, 115, 105, 99, 32, 89, 87, 82, 116, 97, 87, 52, 54, 99, 50, 86, 106,
       99, 109, 86, 48 >>

\* C12: build turns a configured password p into the header value "Basic "
\* followed by a base64 text that decodes to "admin:" followed by p (for p =
\* "secret": Basic YWRtaW46c2VjcmV0), and no password into no header; the
\* handshake request of every connect carries exactly the channel's header.
C12_BasicAuthorization ==
    [][ /\ (builder.live /\ ~builder'.live /\ channel'.res.ok) =>
              LET pw == builder.b.password
                  hdr == channel'.res.channel.auth_header
              IN  IF pw.some
                  THEN /\ hdr.some
                       /\ SubSeq(hdr.v, 1, 6) = << 66, 97, 115, 105, 99, 32 >>
                       /\ Base64Decode(SubSeq(hdr.v, 7, Len(hdr.v)))
                             = << 97, 100, 109, 105, 110, 58 >> \o pw.v
                       /\ (Len(hdr.v) - 6) % 4 = 0
                       /\ pw.v = Secret => hdr.v = BasicAdminSecret
                  ELSE ~hdr.some
        /\ (sup = "connect" /\ sup' = "matching") =>
              /\ request'.sent
              /\ request'.req.authorization = channel.res.channel.auth_header
      ]_vars

\* C12 witness: a channel configured with "secret" has sent a handshake
\* request with Authorization: Basic YWRtaW46c2VjcmV0.
C12_Witness ==
    /\ request.sent
    /\ request.req.authorization = SomeOf(BasicAdminSecret)
\* permits of connection c that are out: the dispatcher's and the tasks'
PermitsOut(c) == (IF permit[c] THEN 1 ELSE 0) + Cardinality(Holding(c))

\* C13: on every connection the available permits plus the permits held by the
\* dispatcher and by running tasks are N at every state, whatever path each
\* permit took; when handler has returned all N are available.
C13_PermitConservation ==
    \A c \in Conns :
        /\ hpc[c] # "none" => semaphore[c] + PermitsOut(c) = Limit
        /\ hpc[c] = "none" => semaphore[c] = 0 /\ PermitsOut(c) = 0
        /\ hpc[c] \in {"handle", "reap", "acquire", "drain", "closed"} => ~permit[c]
        /\ hpc[c] = "closed" => semaphore[c] = Limit

\* C13 witness: handler has returned with all permits back after a parse
\* failure, a handler panic and a read error.
C13_Witness ==
    \E c \in Conns :
        /\ hpc[c] = "closed" /\ semaphore[c] = Limit
        /\ \E f \in Malformed(c) : inbound[c][f].res = "parse_error"
        /\ \E f \in Events(c) : inbound[c][f].res = "panic"
        /\ inbound[c][Len(inbound[c])].kind = "Err"

\* connection c has read a close frame or a read error
LoopBroken(c) ==
    /\ inbound[c] # <<>>
    /\ inbound[c][Len(inbound[c])].kind \in {"Close", "Err"}

\* C14: the step that reads a close frame or a read error returns the permit
\* just acquired and spawns no task for that frame; from then on the
\* connection reads no frame and gets no new task.
C14_CloseEndsLoop ==
    [][ \A c \in Conns :
            /\ (Len(inbound'[c]) > Len(inbound[c])
                  /\ inbound'[c][Len(inbound'[c])].kind \in {"Close", "Err"}) =>
                  /\ permit[c] /\ ~permit'[c]
                  /\ semaphore'[c] = semaphore[c] + 1
                  /\ inbound'[c][Len(inbound'[c])].st = "none"
                  /\ hpc'[c] = "drain"
            /\ LoopBroken(c) =>
                  /\ Len(inbound'[c]) = Len(inbound[c])
                  /\ hpc[c] \in {"drain", "closed"} /\ hpc'[c] \in {"drain", "closed"}
                  /\ \A f \in Frames(c) :
                        inbound[c][f].st = "none" => inbound'[c][f].st = "none"
      ]_vars

\* C14 witness: a close frame was read while a task was running and the
\* upstream still has frames; the dispatcher is draining.
C14_Witness ==
    \E c \in Conns :
        /\ inbound[c] # <<>> /\ inbound[c][Len(inbound[c])].kind = "Close"
        /\ hpc[c] = "drain"
        /\ Holding(c) # {}
        /\ MoreInput

\* C15: the step that reads a binary, ping or pong frame spawns no task, puts
\* nothing on the queue or the wire, leaves the tasks as they are, returns the
\* permit acquired for it, and takes the dispatcher back to the top of its loop.
C15_OtherFrameNoOp ==
    [][ \A c \in Conns :
            (Len(inbound'[c]) > Len(inbound[c])
                /\ inbound'[c][Len(inbound'[c])].kind = "Other") =>
                /\ inbound'[c][Len(inbound'[c])].st = "none"
                /\ SubSeq(inbound'[c], 1, Len(inbound[c])) = inbound[c]
                /\ (Holding(c))' = Holding(c)
                /\ UNCHANGED << ack_queue, wcur, wire, wpc, sup >>
                /\ semaphore'[c] + (PermitsOut(c))' = semaphore[c] + PermitsOut(c)
                /\ permit[c] /\ ~permit'[c] /\ semaphore'[c] = semaphore[c] + 1
                /\ hpc'[c] = "reap"
      ]_vars

\* C15 witness: after a ping the dispatcher has read the next frame, whose
\* event was handled and acknowledged.
C15_Witness ==
    \E c \in Conns : \E f \in Frames(c) : \E g \in Events(c) :
        /\ inbound[c][f].kind = "Other"
        /\ g = f + 1
        /\ Acked(c, EventId(c, g))
\* C16: the step in which a send fails writes nothing and ends the writer; a
\* writer that has ended after a failed send stays ended, its connection's wire
\* never grows again and its queue takes no id.
C16_SendFailureEndsWriter ==
    [][ \A c \in Conns :
            /\ (wpc[c] = "send" /\ wpc'[c] \notin {"send", "recv"}) =>
                  /\ wpc'[c] = "failed"
                  /\ wire'[c] = wire[c]
            /\ wpc[c] = "failed" =>
                  /\ wpc'[c] = "failed"
                  /\ wire'[c] = wire[c]
                  /\ ack_queue'[c] = <<>> /\ wcur'[c] = NoMessage
            /\ wpc[c] = "send" => (wpc'[c] = "recv" <=> Len(wire'[c]) = Len(wire[c]) + 1)
      ]_vars

\* C16 witness: after one ack was written a send failed; the id of that send,
\* and the id of a success that came later, are not on the wire.
C16_Witness ==
    \E c \in Conns :
        /\ wpc[c] = "failed"
        /\ Len(wire[c]) = 1
        /\ \E f, g \in Events(c) :
              /\ f < g
              /\ inbound[c][f].res = "ok" /\ inbound[c][f].enq /\ ~Acked(c, EventId(c, f))
              /\ inbound[c][g].res = "ok" /\ ~inbound[c][g].enq /\ ~Acked(c, EventId(c, g))

\* C17: the step in which the writer ends after a failed send changes nothing
\* of the dispatcher, its tasks, its permits or main's loop; with the writer
\* ended, the dispatcher's next step is still possible, and a running handler
\* can still return success, which ends its task and returns its permit
\* without anything being queued or written.
C17_DispatcherOutlivesWriter ==
    [][ \A c \in Conns :
            /\ (wpc[c] = "send" /\ wpc'[c] = "failed") =>
                  UNCHANGED << hpc, permit, semaphore, inbound, sup, last, nconn >>
            /\ wpc[c] = "failed" =>
                  /\ hpc[c] = "reap" => ENABLED Reap(c)
                  /\ (hpc[c] = "acquire" /\ semaphore[c] > 0) => ENABLED Acquire(c)
                  /\ (hpc[c] = "read" /\ MoreInput) =>
                        ENABLED (\E text \in Texts(c) : ReadText(c, text))
                  /\ \A f \in Holding(c) :
                        inbound[c][f].st = "running" =>
                            ENABLED (/\ TaskOk(c, f)
                                     /\ inbound'[c][f].res = "ok"
                                     /\ inbound'[c][f].st = "finished"
                                     /\ semaphore'[c] = semaphore[c] + 1
                                     /\ ack_queue'[c] = <<>>
                                     /\ wire'[c] = wire[c])
      ]_vars

\* C17 witness: the writer ended on a failed send before the dispatcher read
\* its second frame; that frame's handler has since succeeded, its permit is
\* back, and its event is not acknowledged.
C17_Witness ==
    \E c \in Conns :
        /\ wpc[c] = "failed" /\ wire[c] = <<>>
        /\ hpc[c] \in {"reap", "acquire", "read"}
        /\ Len(inbound[c]) = 2 /\ Events(c) = {1, 2}
        /\ inbound[c][1].enq /\ ~inbound[c][2].enq
        /\ inbound[c][2].res = "ok" /\ Ended(c, 2)
        /\ semaphore[c] + (IF permit[c] THEN 1 ELSE 0) = Limit

\* C18: the step in which a handler returns failure ends that task and returns
\* its permit, and changes nothing else: not the dispatcher's position, not
\* another task, not the queue, the writer or main's loop; afterwards another
\* running handler can still return success and have its id queued.
C18_FailureIsLocal ==
    [][ \A c \in Conns : \A f \in Events(c) :
            (inbound[c][f].st = "running" /\ inbound'[c][f].res = "err") =>
                /\ inbound'[c][f].st = "finished" /\ ~inbound'[c][f].enq
                /\ semaphore'[c] = semaphore[c] + 1
                /\ \A g \in Frames(c) \ {f} : inbound'[c][g] = inbound[c][g]
                /\ Len(inbound'[c]) = Len(inbound[c])
                /\ UNCHANGED << hpc, permit, ack_queue, wpc, wcur, wire, sup, last, nconn >>
                /\ \A g \in Events(c) \ {f} :
                      (inbound[c][g].st = "running" /\ wpc[c] # "failed") =>
                          (ENABLED (/\ TaskOk(c, g)
                                    /\ inbound'[c][g].enq
                                    /\ ack_queue'[c] =
                                          Append(ack_queue[c], EventId(c, g))))'
      ]_vars

\* C18 witness: the handler of frame 2 failed while the handler of frame 1 was
\* in flight; frame 1 was then acknowledged and a third frame was read.
C18_Witness ==
    \E c \in Conns :
        /\ Limit = 2 /\ {1, 2} \subseteq Events(c) /\ Len(inbound[c]) = 3
        /\ inbound[c][2].res = "err" /\ inbound[c][2].st = "joined"
        /\ inbound[c][1].st = "finished"
        /\ wire[c] = << AckFrame(EventId(c, 1)) >>
\* C19: the step in which a handler panics ends that task with its permit
\* returned and nothing queued, and changes nothing else; a panicked event is
\* never queued or acknowledged; main's loop never leaves its positions; the
\* dispatcher can reap or join the panicked task and main can go on after it.
C19_PanicContained ==
    [][ /\ sup' \in {"connect", "matching", "sleep5", "handler", "sleep10"}
        /\ \A c \in Conns : \A f \in Events(c) :
              /\ (inbound[c][f].st = "running" /\ inbound'[c][f].res = "panic") =>
                    /\ inbound'[c][f].st = "finished" /\ ~inbound'[c][f].enq
                    /\ semaphore'[c] = semaphore[c] + 1
                    /\ \A g \in Frames(c) \ {f} : inbound'[c][g] = inbound[c][g]
                    /\ UNCHANGED << hpc, permit, ack_queue, wpc, wcur, wire, sup, last, nconn >>
              /\ inbound[c][f].res = "panic" =>
                    /\ ~inbound[c][f].enq
                    /\ EventId(c, f) \notin Submitted(c)
                    /\ inbound[c][f].st = "finished" =>
                          /\ hpc[c] = "reap" => ENABLED Reap(c)
                          /\ hpc[c] = "drain" => ENABLED JoinNext(c, f)
                    /\ (hpc[c] = "drain" /\ InJoinSet(c) = {}) => ENABLED HandlerReturn(c)
                    /\ (hpc[c] = "closed" /\ sup = "sleep10") => ENABLED Wake10
      ]_vars

\* C19 witness: a handler panicked on the first connection; the dispatcher
\* drained and returned, and main has connected again and runs the dispatcher
\* of the second connection.
C19_Witness ==
    /\ nconn = 2
    /\ hpc[1] = "closed" /\ hpc[2] = "reap" /\ sup = "handler"
    /\ \E f \in Events(1) : inbound[1][f].res = "panic" /\ inbound[1][f].st = "joined"
\* the positions inside the two supervisor loops
SupervisorLoop ==
    {"connect", "matching", "sleep5", "handler", "sleep10",
     "tap_consume", "tap_running", "tap_result", "tap_sleep5"}

\* a connection attempt has failed, or the dispatcher of a connection has returned
ConnectionOver ==
    \/ sup = "matching" /\ last.tag = "Err"
    \/ sup = "sleep10"
    \/ sup = "tap_result"

\* the loop is back at its top, where the only step is the next connection attempt
NextAttempt == sup \in {"connect", "tap_consume"}

\* C20: once a worker's supervisor loop has started it stays inside the loop
\* whatever happens on its connections (handshake error, read error, close
\* frame, parse error, handler error, handler panic, ack send error), and after
\* every failed connection attempt and every dispatcher return the loop comes
\* back to a new connection attempt.
C20_LoopNeverExits ==
    /\ [](sup \in SupervisorLoop)
    /\ [](ConnectionOver => <>NextAttempt)

\* gifdex-ingest is about to connect again after a connection on which a handler
\* panicked and the ack writer's send failed
C20_Witness ==
    /\ sup = "connect" /\ nconn = 1 /\ hpc[1] = "closed" /\ wpc[1] = "failed"
    /\ \E f \in Frames(1) : inbound[1][f].res = "panic"
\* the connection attempt the supervisor is looking at has failed
AttemptFailed ==
    \/ sup = "matching" /\ last.tag = "Err"
    \/ sup = "tap_result" /\ last.tag = "Err" /\ last.err = "connect_async"

\* the dispatcher of the latest connection is running or has just returned
AfterDispatcher ==
    \/ sup = "handler"
    \/ sup = "tap_result" /\ ~(last.tag = "Err" /\ last.err = "connect_async")

\* C21: in every worker's supervisor loop a failed connection attempt is
\* followed by a 5 second cooldown and by no dispatcher run, a returned
\* dispatcher is followed by the longer 10 second cooldown, and the loop comes
\* back to a connection attempt only out of a cooldown.
C21_Cooldowns ==
    [][/\ (AttemptFailed /\ sup' # sup) => CooldownSecs' = 5
       /\ (AfterDispatcher /\ sup' # sup) => CooldownSecs' = 10
       /\ (NextAttempt' /\ ~NextAttempt) => CooldownSecs > 0]_vars

\* C21 as amended: the cooldown after a returned dispatcher is the longer 10
\* seconds in gifdex-ingest and the same 5 seconds in lesgif-ingest.
C21_CooldownsPerWorker ==
    [][/\ (AttemptFailed /\ sup' # sup) => CooldownSecs' = 5
       /\ (AfterDispatcher /\ sup' # sup) =>
              CooldownSecs' = (IF channel.done THEN 10 ELSE 5)
       /\ (NextAttempt' /\ ~NextAttempt) => CooldownSecs > 0]_vars

\* lesgif-ingest sleeps after a connection that ended with a close frame
C21_Witness ==
    /\ sup = "tap_sleep5" /\ nconn = 1 /\ hpc[1] = "closed"
    /\ inbound[1] # <<>> /\ inbound[1][Len(inbound[1])].kind = "Close"
\* C22: every ingestion worker follows the channel's dispatch discipline: a
\* frame is read only while the dispatcher holds the permit it acquired for it
\* (so that handlers run side by side up to the limit and no frame is read
\* beyond it).
C22_DispatchDiscipline ==
    [][\A c \in Conns : Len(inbound'[c]) > Len(inbound[c]) => permit[c]]_vars
\* the phase of connection c's handle
Phase(c) ==
    IF hpc[c] = "none" THEN "None"
    ELSE IF hpc[c] \in {"handle", "reap", "acquire", "read"} THEN "Open"
    ELSE IF hpc[c] = "drain" THEN "Draining"
    ELSE "Closed"

\* C23: a connection handle moves only Open -> Draining -> Closed, handler is
\* entered once per handle, and once handler has returned no frame is read, no
\* task is spawned or changes state, and no id is enqueued for that connection.
C23_HandleLifecycle ==
    [][\A c \in Conns :
         /\ Phase(c)' # Phase(c) =>
              << Phase(c), Phase(c)' >> \in
                 {<< "None", "Open" >>, << "Open", "Draining" >>, << "Draining", "Closed" >>}
         /\ hpc'[c] = "handle" => hpc[c] \in {"none", "handle"}
         /\ Phase(c) = "Closed" =>
              /\ inbound'[c] = inbound[c]
              /\ Len(ack_queue'[c]) <= Len(ack_queue[c])
              /\ permit'[c] = permit[c] /\ semaphore'[c] = semaphore[c]
      ]_vars

\* the first handle is Closed with an event handled on it, and the worker is
\* reading frames on its second connection
C23_Witness ==
    /\ nconn = 2 /\ hpc[1] = "closed" /\ hpc[2] = "read"
    /\ \E f \in Frames(1) : inbound[1][f].res = "ok"
    /\ inbound[2] # <<>>
\* the positions on connection c's write half that carry an ack for id
AcksFor(c, id) ==
    {i \in 1..Len(wire[c]) : wire[c][i].kind = "Text" /\ wire[c][i].json.id = id}

\* the events received on connection c that carry id
EventsWith(c, id) == {f \in Events(c) : EventId(c, f) = id}

\* C24: every frame written on a connection is a text frame {"type":"ack","id":X}
\* with X the id of an event received on that connection, and no more such
\* frames are written for an id than events with that id were received.
C24_AckFraming ==
    \A c \in Conns :
        \A i \in 1..Len(wire[c]) :
            /\ wire[c][i].kind = "Text"
            /\ DOMAIN wire[c][i].json = {"type", "id"}
            /\ wire[c][i].json.type = "ack"
            /\ EventsWith(c, wire[c][i].json.id) # {}
            /\ Cardinality(AcksFor(c, wire[c][i].json.id))
                  <= Cardinality(EventsWith(c, wire[c][i].json.id))

\* two acks for two different events are on the first connection's write half
C24_Witness ==
    /\ Len(wire[1]) = 2
    /\ wire[1][1].json.id # wire[1][2].json.id
    /\ Cardinality(Events(1)) >= 2
\* the state that belongs to connection c alone
ConnState(c) ==
    << hpc[c], permit[c], semaphore[c], inbound[c], ack_queue[c], wpc[c], wcur[c], wire[c] >>

\* C25: a successful connect gives the new handle a pool of exactly N available
\* permits and an empty ack queue of its own, changes nothing of any other
\* connection, and leaves the Channel configuration as it was; afterwards a
\* step on one connection's pool or queue leaves every other connection's alone.
C25_OwnPoolAndQueue ==
    [][/\ channel.done => channel' = channel
       /\ nconn' # nconn =>
            /\ nconn' = nconn + 1
            /\ semaphore'[nconn'] = Limit
            /\ ack_queue'[nconn'] = <<>>
            /\ \A c \in Conns \ {nconn'} : ConnState(c)' = ConnState(c)
       /\ \A c, d \in Conns :
            (c # d /\ << semaphore[c], ack_queue[c] >>' # << semaphore[c], ack_queue[c] >>)
               => << semaphore[d], ack_queue[d] >>' = << semaphore[d], ack_queue[d] >>
      ]_vars

\* the second connection has a permit out while the first connection's writer
\* still has ids in its queue
C25_Witness ==
    /\ nconn = 2
    /\ ack_queue[1] # <<>>
    /\ semaphore[2] < Limit
\* C26: the channel never writes a close frame: whatever happens (an inbound
\* close frame, a read error, the dispatcher's return, the writer's end), the
\* write half changes only by the writer appending the acknowledgment text
\* frame it is sending.
C26_OnlyAcksWritten ==
    [][\A c \in Conns :
         wire'[c] # wire[c] =>
            /\ wpc[c] = "send"
            /\ wcur[c].kind = "Text"
            /\ wcur[c].json.type = "ack"
            /\ wire'[c] = Append(wire[c], wcur[c])
      ]_vars

\* the connection got a close frame, the dispatcher returned and the writer
\* ended on its closed queue: one ack is all that was written
C26_Witness ==
    /\ hpc[1] = "closed" /\ wpc[1] = "closed"
    /\ inbound[1][Len(inbound[1])].kind = "Close"
    /\ Len(wire[1]) = 1 /\ wire[1][1].kind = "Text"
\* the ids that were sent on connection c's queue and have left it unwritten
Dropped(c) ==
    {EventId(c, f) : f \in {g \in Events(c) : inbound[c][g].enq}} \ Submitted(c)

\* C27: when serializing the ack for an id fails, the writer drops that id and
\* stays in its loop: nothing is written or pending for it, then or later, the
\* writer is back at recv and not terminated, and it takes the next queued id.
C27_SerializeFailureSkips ==
    [][\A c \in Conns :
         /\ Dropped(c) \subseteq Dropped(c)'
         /\ (wpc[c] = "recv" /\ Dropped(c)' # Dropped(c)) =>
              /\ Dropped(c)' = Dropped(c) \cup {Head(ack_queue[c])}
              /\ ack_queue'[c] = Tail(ack_queue[c])
              /\ wpc'[c] = "recv"
              /\ wcur'[c] = NoMessage
              /\ wire'[c] = wire[c]
              /\ ack_queue'[c] # <<>> => (ENABLED WriterRecv(c))'
      ]_vars

\* the ack for event 1 failed to serialize; the writer went on and wrote the ack
\* for event 2, and is still running
C27_Witness ==
    /\ 1 \in Dropped(1)
    /\ Acked(1, 2)
    /\ wpc[1] = "recv"
\* connection c's writer has returned
WriterEnded(c) == wpc[c] \in {"closed", "failed"}

\* C28: after the dispatcher has returned and every sender is gone, the writer
\* ends on the closed queue only with the queue empty and every id that was
\* sent on it written (no send having failed), and it does end: a returned
\* dispatcher stays returned and an ended writer stays ended, so from some point
\* on every connection whose dispatcher has returned has a writer that has ended.
C28_WriterDrainsThenEnds ==
    /\ [](\A c \in Conns :
            wpc[c] = "closed" =>
               /\ ack_queue[c] = <<>> /\ wcur[c] = NoMessage
               /\ hpc[c] = "closed"
               /\ \A f \in Events(c) : inbound[c][f].res = "ok" => Acked(c, EventId(c, f)))
    /\ <>[](\A c \in Conns : hpc[c] = "closed" => WriterEnded(c))

\* the dispatcher has returned; the writer has written one ack since and has
\* another id still queued
C28_Witness ==
    /\ hpc[1] = "closed" /\ wpc[1] = "recv"
    /\ Len(wire[1]) >= 1 /\ Len(ack_queue[1]) >= 1
\* the transport has delivered a close frame, a read error or the end of the
\* stream on connection c
TransportEnded(c) ==
    \E f \in Frames(c) : inbound[c][f].kind \in {"Close", "Err", "End"}

\* C29: with every handler invocation completing and fair scheduling, handler
\* returns once the transport has delivered a close frame, a read error or the
\* end of the stream: the delivery ends the read loop at once, and in the end
\* every dispatcher has either returned or is waiting in read for a transport
\* that has delivered none of the three; none stays behind waiting for a permit
\* or for its tasks.
C29_HandlerReturns ==
    /\ [](\A c \in Conns : TransportEnded(c) => hpc[c] \in {"drain", "closed"})
    /\ <>[](\A c \in Conns : hpc[c] \in {"none", "handle", "read", "closed"})

\* handler has returned on a connection that carried two events and then ended
C29_Witness ==
    /\ hpc[1] = "closed"
    /\ Cardinality(Events(1)) = 2
    /\ inbound[1][Len(inbound[1])].kind = "End"
\* the handler invocations of connection c that have not completed
Running(c) == {f \in Frames(c) : inbound[c][f].st = "running"}

\* C30: as long as a handler invocation has not completed, its permit is out of
\* the pool, the dispatcher of its connection has not returned and cannot
\* return, also after the read loop has ended, and the supervisor is still
\* inside that handler call: in no cooldown, at no new connection attempt. An
\* invocation that never completes therefore holds all this for ever.
C30_HungHandlerBlocks ==
    \A c \in Conns :
        Running(c) # {} =>
            /\ semaphore[c] + Cardinality(Running(c)) <= Limit
            /\ hpc[c] \in {"reap", "acquire", "read", "drain"}
            /\ ~ENABLED HandlerReturn(c)
            /\ sup = "handler" /\ CooldownSecs = 0
            /\ nconn = c

\* the read loop has ended with a close frame while a handler invocation has
\* not completed
C30_Witness ==
    /\ hpc[1] = "drain"
    /\ Running(1) # {}
    /\ inbound[1][Len(inbound[1])].kind = "Close"
\* every permit of connection c is held by a handler task
AllPermitsHeld(c) == hpc[c] # "none" /\ Cardinality(Holding(c)) = Limit

\* C31: while all N permits are held by handler tasks the dispatcher is before
\* its read, cannot acquire and so cannot read a close frame or an error; the
\* read loop ends only in a step that starts with a permit in the dispatcher's
\* hand, that is after a task has released one.
C31_BlockedWhileSaturated ==
    [][\A c \in Conns :
         /\ AllPermitsHeld(c) =>
              /\ hpc[c] \in {"reap", "acquire"}
              /\ semaphore[c] = 0 /\ ~permit[c]
              /\ ~ENABLED Acquire(c)
              /\ ~ENABLED ReadClose(c) /\ ~ENABLED ReadErr(c) /\ ~ENABLED ReadEnd(c)
              /\ hpc'[c] \in {"reap", "acquire"}
         /\ (hpc[c] # "drain" /\ hpc'[c] = "drain") =>
              /\ permit[c]
              /\ Cardinality(Holding(c)) < Limit
      ]_vars

\* both permits of a limit of two are held by running handlers, the dispatcher
\* waits in acquire and the transport has more to deliver
C31_Witness ==
    /\ Limit = 2 /\ Cardinality(Running(1)) = 2
    /\ hpc[1] = "acquire"
    /\ MoreInput
\* the ids written on connection c, in the order written
WrittenIds(c) == [i \in 1..Len(wire[c]) |-> wire[c][i].json.id]

\* the ids sent on connection c's queue in the order the tasks sent them: those
\* written, the one being sent, those still queued
Pipeline(c) ==
    WrittenIds(c) \o (IF wcur[c] = NoMessage THEN <<>> ELSE << wcur[c].json.id >>)
                  \o ack_queue[c]

\* C32: acks are written in the order in which the handler tasks enqueued their
\* ids: the sequence written-sending-queued changes only by a completing task
\* appending its id at the end, or by a failed send dropping what is unwritten;
\* the writer's own steps move ids along it without reordering.
C32_AckOrderIsEnqueueOrder ==
    [][\A c \in Conns :
         \/ Pipeline(c)' = Pipeline(c)
         \/ \E f \in Running(c) :
               /\ inbound'[c][f].st = "finished" /\ inbound'[c][f].res = "ok"
               /\ Pipeline(c)' = Append(Pipeline(c), EventId(c, f))
         \/ /\ wpc[c] = "send" /\ wpc'[c] = "failed"
            /\ Pipeline(c)' = WrittenIds(c) /\ wire'[c] = wire[c]
      ]_vars

\* event 2 completed before event 1 and was acknowledged first
C32_Witness ==
    /\ wire[1] = << AckFrame(2), AckFrame(1) >>
    /\ EventId(1, 1) = 1 /\ EventId(1, 2) = 2
\* C33: the ack queue is not bounded by the concurrency limit: a running
\* handler task can always complete with success, however long the queue is,
\* and the step that enqueues its id gives the permit back at once, with the
\* id queued and nothing written for it.
C33_QueueUnbounded ==
    [][\A c \in Conns : \A f \in Frames(c) :
         inbound[c][f].st = "running" =>
            /\ ENABLED TaskOk(c, f)
            /\ (inbound'[c][f].st = "finished" /\ inbound'[c][f].enq) =>
                  /\ semaphore'[c] = semaphore[c] + 1
                  /\ ack_queue'[c] = Append(ack_queue[c], EventId(c, f))
                  /\ wire'[c] = wire[c]
                  /\ ~Acked(c, EventId(c, f))'
      ]_vars

\* the writer is suspended in a send and more ids than the limit are queued
\* behind it, while every permit is back in the pool
C33_Witness ==
    /\ wpc[1] = "send"
    /\ Len(ack_queue[1]) > Limit
    /\ Holding(1) = {}
\* the connections whose dispatcher is inside handler
ActiveDispatchers == {c \in Conns : hpc[c] \in {"reap", "acquire", "read", "drain"}}

\* C34: in gifdex-ingest at most one dispatcher is active at a time, a new
\* connection is attempted only when handler has returned on every earlier one
\* with all its tasks completed, and an ack for an event of connection k is
\* written on k's socket only: k's socket gets nothing but the id k's own writer
\* is sending, which came from k's queue, which only k's tasks fill.
C34_OneDispatcherOwnSocket ==
    [][/\ Cardinality(ActiveDispatchers) <= 1
       /\ (sup = "connect" \/ nconn' # nconn) =>
             \A c \in 1..nconn : hpc[c] = "closed" /\ InJoinSet(c) = {}
       /\ \A c \in Conns :
            /\ wire'[c] # wire[c] =>
                  /\ wpc[c] = "send"
                  /\ wire'[c] = Append(wire[c], wcur[c])
                  /\ Pipeline(c)' = Pipeline(c)
                  /\ wcur[c].json.id \in OkIds(c)
            /\ Len(Pipeline(c)') > Len(Pipeline(c)) =>
                  /\ c \in ActiveDispatchers
                  /\ \E f \in Running(c) : Pipeline(c)' = Append(Pipeline(c), EventId(c, f))
                  /\ \A d \in Conns \ {c} : inbound'[d] = inbound[d]
      ]_vars

\* the second connection is open and has read a frame while the first
\* connection's writer is still sending an ack of the first connection
C34_Witness ==
    /\ nconn = 2 /\ hpc[2] \in {"reap", "acquire", "read"}
    /\ inbound[2] # <<>>
    /\ wpc[1] = "send"
\* the record's collection has no arm in handle_event
NoRegisteredHandler(d) ==
    d.type = "record"
    /\ d.collection \notin {PostNSID, FavouriteNSID, ProfileNSID, LabelNSID}

\* a label record, of the label lexicon type where it carries one, whose
\* account is not among the moderation accounts
FromNonModerationAccount(d) ==
    /\ d.type = "record" /\ d.collection = LabelNSID
    /\ d.did \notin ModerationAccountDids
    /\ d.action \in {"create", "update"} => d.payload.decodes

\* a created or updated post, of the post lexicon type, whose record key is not
\* a valid TID and the blob's valid CID joined by ':', or whose blob is neither
\* a gif nor a webp
PostFailsValidation(d) ==
    /\ d.type = "record" /\ d.collection = PostNSID
    /\ d.action \in {"create", "update"} /\ d.payload.decodes
    /\ \/ Len(d.rkey) # 2
       \/ d.rkey[1] \notin ValidTids
       \/ d.rkey[Len(d.rkey)] \notin ValidCids
       \/ d.rkey[Len(d.rkey)] # d.payload.cid
       \/ d.payload.mime \notin {"image/gif", "image/webp"}

\* the events of connection c whose handle_event has returned or panicked
Handled(c) ==
    {f \in Events(c) : Ended(c, f) /\ inbound[c][f].res \in {"ok", "err", "panic"}}

\* C35: when handle_event returns for an event, it returns success if the record
\* was rejected by validation or is a label of a non-moderation account, and the
\* task then submits the event's id for acknowledgment; it returns failure if
\* the store operation failed or no handler is registered for the record's
\* collection, and the id of an event whose handle_event returned failure is
\* neither queued nor written on that connection.
C35_HandleEventResult ==
    [][\A c \in Conns :
         /\ \A f \in Running(c) :
              inbound'[c][f].st = "finished" =>
                 LET d == inbound[c][f].text.data
                     g == inbound'[c][f]
                 IN /\ PostFailsValidation(d) => g.via = "rejected"
                    /\ FromNonModerationAccount(d) => g.via = "not_moderation_account"
                    /\ NoRegisteredHandler(d) => g.via = "no_handler"
                    /\ g.via \in {"rejected", "not_moderation_account"} =>
                          /\ g.res = "ok"
                          /\ ReceiverOpen(c) =>
                                ack_queue'[c] = Append(ack_queue[c], EventId(c, f))
                    /\ g.via \in {"store_failed", "no_handler"} =>
                          /\ g.res = "err"
                          /\ ack_queue'[c] = ack_queue[c]
         /\ \A f \in Handled(c)' :
              inbound'[c][f].res = "err" =>
                 /\ ~Acked(c, EventId(c, f))'
                 /\ \A i \in 1..Len(ack_queue'[c]) :
                      ack_queue'[c][i] # EventId(c, f)
                 /\ wcur'[c] # AckFrame(EventId(c, f))
      ]_vars

\* a post whose record key or blob fails validation was rejected, handle_event
\* returned success, and the ack for the event is on the wire
C35_Witness ==
    \E c \in Conns : \E f \in Handled(c) :
        /\ PostFailsValidation(inbound[c][f].text.data)
        /\ inbound[c][f].via = "rejected" /\ inbound[c][f].res = "ok"
        /\ Acked(c, EventId(c, f))
\* the acks consume_tap owes on connection c: one for each event for which
\* process_event returned true, in the order the events arrived
RECURSIVE TapAcksOf(_)
TapAcksOf(frames) ==
    IF frames = <<>> THEN <<>>
    ELSE LET fr == frames[Len(frames)]
             before == TapAcksOf(SubSeq(frames, 1, Len(frames) - 1))
         IN IF fr.kind = "Text" /\ fr.res = "ok"
            THEN Append(before, AckFrame(fr.text.id))
            ELSE before

\* s is an initial part of t
IsPrefix(s, t) == Len(s) <= Len(t) /\ s = SubSeq(t, 1, Len(s))

\* the tasks of connection c that consume_tap has spawned and not yet awaited
TapInFlight(c) ==
    {f \in Frames(c) : inbound[c][f].st \in {"spawned", "running", "finished"}}

\* C36 as stated: once consume_tap is past an event, by reading on or by
\* returning, the event's ack is on the wire iff process_event returned true.
C36_AckIffTrue ==
    \A c \in Conns : \A f \in Events(c) :
        (f < Len(inbound[c]) \/ hpc[c] \in {"tap_read", "closed"}) =>
           (Acked(c, EventId(c, f)) <=> inbound[c][f].res = "ok")

\* C36: consume_tap has at most one task at a time, that of the frame read
\* last; what is on the wire is the acks of the events for which process_event
\* returned true, in arrival order, complete whenever consume_tap reads a frame:
\* only the ack of the last event can be missing, while its task is awaited and
\* the ack sent, or when the send failed and consume_tap returned that error. A text that does not
\* parse never reaches process_event, is never acknowledged, and its join ends
\* consume_tap with a JoinError, after which run_tap_consumer logs, sleeps and
\* calls consume_tap again.
C36_SerialAcks ==
    [][/\ \A c \in Conns :
            /\ TapInFlight(c) \subseteq {Len(inbound[c])}
            /\ IsPrefix(wire[c], TapAcksOf(inbound[c]))
            /\ Len(TapAcksOf(inbound[c])) <= Len(wire[c]) + 1
            /\ hpc[c] = "tap_read" => wire[c] = TapAcksOf(inbound[c])
            /\ Len(inbound'[c]) > Len(inbound[c]) =>
                  /\ hpc[c] = "tap_read"
                  /\ wire[c] = TapAcksOf(inbound[c])
            /\ Len(wire[c]) < Len(TapAcksOf(inbound[c]))
               /\ hpc[c] \notin {"tap_await", "tap_send"} =>
                  /\ hpc[c] = "closed"
                  /\ hpc'[c] = "closed" /\ inbound'[c] = inbound[c]
            /\ \A f \in Malformed(c) :
                  /\ inbound[c][f].st # "running" /\ inbound'[c][f].st # "running"
                  /\ inbound[c][f].res \in {"none", "panic"}
                  /\ f = Len(inbound[c]) /\ f = Len(inbound'[c])
                  /\ inbound[c][f].st = "finished" /\ inbound'[c][f].st = "joined" =>
                        /\ hpc'[c] = "closed"
                        /\ last' = [tag |-> "Err", err |-> "JoinError"]
                        /\ sup' = "tap_result"
       /\ sup = "tap_result" => ENABLED RunTapConsumerLog
       /\ sup = "tap_sleep5" => ENABLED RunTapConsumerWake
       /\ sup = "tap_result" => sup' \in {"tap_result", "tap_sleep5"}
       /\ sup = "tap_sleep5" => sup' \in {"tap_sleep5", "tap_consume"}
      ]_vars

\* the first connection acknowledged its first event, then read a text that
\* does not parse and ended; run_tap_consumer has connected again
C36_Witness ==
    /\ nconn = 2
    /\ wire[1] = << AckFrame(1) >>
    /\ Len(inbound[1]) = 2 /\ 2 \in Malformed(1)
    /\ inbound[1][2].res = "panic" /\ inbound[1][2].st = "joined"
    /\ hpc[1] = "closed"
\* C37: the ChannelBuilder that TapClient::channel returns has the client's
\* base address, has the client's password if the client has one and none if
\* it has none, and the default limit; a TapClient exists only for an http or
\* https base address, so the Channel built from that builder is never refused
\* with InvalidUrlScheme, and the handshake of its connection goes to ws for
\* http and to wss for https.
C37_ClientChannel ==
    [][/\ sup = "tap_client" =>
             /\ builder.built.ok
             /\ builder.built.client.base_url.scheme \in {"http", "https"}
       /\ sup = "tap_client" /\ sup' = "start" =>
             /\ builder'.live
             /\ builder'.b.base_url = builder.built.client.base_url
             /\ builder'.b.password = builder.built.client.password
             /\ builder'.b.password.some <=> builder.built.client.password.some
       /\ builder.live =>
             /\ builder.b.base_url = builder.client.base_url
             /\ builder.b.base_url.scheme \in {"http", "https"}
       /\ builder.live /\ channel'.done =>
             /\ channel'.res.ok \/ channel'.res.err # "InvalidUrlScheme"
             /\ channel'.res.ok => channel'.res.channel.base_url = builder.b.base_url
       /\ request'.sent =>
             /\ channel.res.ok
             /\ channel.res.channel.base_url.scheme = "http" =>
                   request'.req.url.scheme = "ws"
             /\ channel.res.channel.base_url.scheme = "https" =>
                   request'.req.url.scheme = "wss"
             /\ request'.req.url.scheme \in {"ws", "wss"}
      ]_vars

\* a client built on an https address with a password gave a channel whose
\* handshake went to wss with the Authorization header
C37_Witness ==
    /\ request.sent
    /\ request.req.url.scheme = "wss"
    /\ request.req.authorization.some
    /\ channel.done /\ channel.res.ok
    /\ channel.res.channel.base_url.scheme = "https"
====
